---------------------------- MODULE Spec2Model ----------------------------
(***************************************************************************)
(* dydx-tracker: the position ledger engine (utils/trading.ts,             *)
(* utils/functions.ts), the processor queue and pending batch              *)
(* (services/processor.ts), the flush cron job (services/crons.ts) and the *)
(* per-trader connection (services/websocket.ts), for one tracked trader,  *)
(* and the table the bulk statement of processPositions writes             *)
(* (utils/functions.ts, utils/database.ts).                                *)
(*                                                                         *)
(* Decimal values of the feed are modelled by integers; a value computed   *)
(* by a Decimal division is kept as an exact fraction.                     *)
(***************************************************************************)
EXTENDS Integers, Sequences, FiniteSets, TLC

(***************************************************************************)
(* JS values.  A numeric string of the feed, or a number computed from it, *)
(* is Num(n); the other values a field can hold are null, undefined, NaN,  *)
(* +-Infinity and a fraction n/d that a Decimal division left.             *)
(***************************************************************************)
Num(n) == [t |-> "num", v |-> n]
Null == [t |-> "null", v |-> 0]
Undef == [t |-> "undefined", v |-> 0]
NaN == [t |-> "NaN", v |-> 0]
Inf(sign) == [t |-> "Infinity", v |-> sign]
IsNum(x) == x.t = "num"

(* JS truthiness of a field of the feed: a string is truthy, null and      *)
(* undefined are not.                                                      *)
Truthy(x) == x.t \notin {"null", "undefined", "NaN"}

(* Number(x) and the implicit conversion of the operands of * and unary -. *)
ToNumber(x) == IF IsNum(x) THEN x ELSE IF x.t = "null" THEN Num(0) ELSE NaN

JsNeg(x) == LET a == ToNumber(x) IN IF IsNum(a) THEN Num(-a.v) ELSE NaN
JsSub(x, y) ==
  LET a == ToNumber(x)
      b == ToNumber(y)
  IN  IF IsNum(a) /\ IsNum(b) THEN Num(a.v - b.v) ELSE NaN
JsMul(x, y) ==
  LET a == ToNumber(x)
      b == ToNumber(y)
  IN  IF IsNum(a) /\ IsNum(b) THEN Num(a.v * b.v) ELSE NaN

(***************************** bounds **************************************)
MaxFrames == 2
MaxPositions == 1
MaxConnects == 3

(************************ program constants ********************************)
AMOUNT_DECIMALS == 6
PRICE_DECIMALS == 18
OPEN_STATUS == "OPEN"
CLOSED_STATUS == "CLOSED"
SUBSCRIPTION_TYPE == "subscribed"
DATA_TYPE == "channel_data"
RECONNECT_INTERVAL == 1000

(* The one tracked trader: user_ and address_ of initWebSocketTraderMemory. *)
User == 1
Address == "0xA"

(***************************** the feed ************************************)
(* A market is the sequence of the pieces of its name, "BTC-USD"; a        *)
(* position object without a market has none.                              *)
BTC == <<"BTC", "-", "USD">>
ETH == <<"ETH", "-", "USD">>
NoMarket == <<>>
Markets == {BTC, ETH}

(* symbol_.replace(/-/g, "") *)
StripDashes(market) == SelectSeq(market, LAMBDA ch : ch # "-")

(* The results the token query can return: the symbol filter's contents.    *)
PairSets == {{StripDashes(BTC), StripDashes(ETH)}, {StripDashes(BTC)}}

(* size, sumOpen, sumClose, entryPrice, exitPrice, netFunding as the venue  *)
(* reports them (size unsigned here; Payload gives it the side's sign).     *)
Opened ==
  [size |-> Num(10), sumOpen |-> Num(10), sumClose |-> Num(0),
   entryPrice |-> Num(100), exitPrice |-> Null, netFunding |-> Num(0)]
Reduced ==
  [size |-> Num(4), sumOpen |-> Num(15), sumClose |-> Num(6),
   entryPrice |-> Num(110), exitPrice |-> Num(120), netFunding |-> Num(2)]
Unset ==
  [size |-> Undef, sumOpen |-> Undef, sumClose |-> Undef,
   entryPrice |-> Undef, exitPrice |-> Undef, netFunding |-> Undef]
Numbers == {Opened, Reduced, Unset}

Sides == {"LONG", "SHORT"}
Statuses == {OPEN_STATUS, CLOSED_STATUS, "LIQUIDATED"}

(* The block of the positions a snapshot reports.  The venue numbers its   *)
(* blocks upwards, so the fills it reports later are of this block or of   *)
(* a later one.                                                            *)
FirstBlock == 1

Payload(market, side, status, n) ==
  [market |-> market, side |-> side, status |-> status,
   size |-> IF IsNum(n.size) /\ side # "LONG" THEN Num(-n.size.v) ELSE n.size,
   sumOpen |-> n.sumOpen, sumClose |-> n.sumClose,
   entryPrice |-> n.entryPrice, exitPrice |-> n.exitPrice,
   netFunding |-> n.netFunding,
   createdAtHeight |-> Num(FirstBlock), createdAt |-> Num(FirstBlock)]

(* The position objects a frame can carry: every report about a market,    *)
(* and one object that names no market.                                    *)
Payloads ==
  {Payload(m, s, st, n) : m \in Markets, s \in Sides, st \in Statuses,
                          n \in Numbers}
    \cup {Payload(NoMarket, "LONG", OPEN_STATUS, Opened)}

(* contents.fills of an incremental frame: an empty list, or one fill.      *)
Fill(h) == [createdAtHeight |-> Num(h), createdAt |-> Num(h)]
FillLists == {<<>>, <<Fill(2)>>}

(* The frames of the feed, as the worker of messageQueue tells them apart:  *)
(* the type, and whether the frame parses and carries what its type needs. *)
(* The positions of a frame are drawn when the worker's loop reaches them. *)
Subscribed == [type |-> SUBSCRIPTION_TYPE, shape |-> "ok", fills |-> <<>>]
ChannelData(fills) == [type |-> DATA_TYPE, shape |-> "ok", fills |-> fills]
ChannelDataNoFills == [type |-> DATA_TYPE, shape |-> "no fills", fills |-> <<>>]
Garbled == [type |-> DATA_TYPE, shape |-> "garbled", fills |-> <<>>]

(* A snapshot without an id: the worker's `account` is undefined.  And a    *)
(* frame whose field `account` is null or the string "undefined".          *)
NoAccount == "undefined"
SubscribedNoId == [type |-> SUBSCRIPTION_TYPE, shape |-> "no id", fills |-> <<>>]
NullAccount == [type |-> SUBSCRIPTION_TYPE, shape |-> "null account", fills |-> <<>>]
(* The block of the last fill the feed has reported, after this frame.      *)
FeedHeight(frame, h) ==
  IF frame.fills = <<>> THEN h ELSE frame.fills[1].createdAtHeight.v

Frames ==
  {Subscribed, ChannelDataNoFills} \cup {ChannelData(f) : f \in FillLists}


(************************** Decimal arithmetic *****************************)
RECURSIVE Gcd(_, _)
Gcd(a, b) == IF b = 0 THEN a ELSE Gcd(b, a % b)

(* The size taken as it is reported, sign and all.                         *)
AbsForgotten(n) == n

Abs(n) == IF n < 0 THEN -n ELSE n

(* Decimal.div of two integers: the quotient, an exact fraction when it is  *)
(* not an integer, and Infinity or NaN for a zero divisor.                 *)
DecDiv(n, d) ==
  IF d = 0 THEN (IF n = 0 THEN NaN ELSE Inf(IF n < 0 THEN -1 ELSE 1))
  ELSE LET Mag(x) == IF x < 0 THEN -x ELSE x
           sn == IF d < 0 THEN -n ELSE n
           sd == Mag(d)
           g == Gcd(Mag(sn), sd)
       IN  IF Mag(sn) % sd = 0
           THEN Num(IF sn < 0 THEN -(Mag(sn) \div sd) ELSE sn \div sd)
           ELSE [t |-> "frac", v |-> IF sn < 0 THEN -(Mag(sn) \div g) ELSE sn \div g,
                 d |-> sd \div g]

(************************** utils/functions.ts *****************************)
(* realised_pnl of createNewPosition and updateExistingPosition: JS number *)
(* arithmetic on the fields of the position, then toString().              *)
RealisedPnl(position) ==
  LET r == IF Truthy(position.exitPrice) /\ Truthy(position.entryPrice)
           THEN JsMul(position.sumClose,
                      JsSub(position.exitPrice, position.entryPrice))
           ELSE Num(0)
  IN  IF position.side = "LONG" THEN r ELSE JsNeg(r)

Bias(side) == IF side = "LONG" THEN 1 ELSE 0

TradeId(address, symbol, side, blockHeight) ==
  <<address, symbol, side, blockHeight>>

createNewPositionThrows(position) == position.market = NoMarket

createNewPosition(user, position, address, blockHeight_, createdAt_, type) ==
  LET symbol == StripDashes(position.market)
      blockHeight == IF Truthy(blockHeight_) THEN blockHeight_
                     ELSE position.createdAtHeight
      createdAt == IF Truthy(createdAt_) THEN createdAt_ ELSE position.createdAt
  IN  [user |-> user,
       trade_id |-> TradeId(address, symbol, position.side, blockHeight),
       trader_address |-> address,
       token |-> symbol,
       bias |-> Bias(position.side),
       size |-> position.size,
       sum_open |-> position.sumOpen,
       sum_close |-> position.sumClose,
       limit_price |-> position.entryPrice,
       exit_price |-> position.exitPrice,
       start_date |-> createdAt,
       end_date |-> Null,
       funding |-> position.netFunding,
       realised_pnl |-> RealisedPnl(position),
       pnl |-> Num(0),
       is_profitable |-> 0,
       type |-> type]

(* An update that stamps the lane with the time the report carries.        *)
updateRestamped(trader_position, position) ==
  [trader_position EXCEPT
     !.size = position.size,
     !.sum_open = position.sumOpen,
     !.sum_close = position.sumClose,
     !.limit_price = position.entryPrice,
     !.exit_price = position.exitPrice,
     !.funding = position.netFunding,
     !.realised_pnl = RealisedPnl(position),
     !.start_date = position.createdAt,
     !.type = "update"]

(* updateExistingPosition: the fields it assigns, on the object itself.     *)
updateExistingPosition(trader_position, position) ==
  [trader_position EXCEPT
     !.size = position.size,
     !.sum_open = position.sumOpen,
     !.sum_close = position.sumClose,
     !.limit_price = position.entryPrice,
     !.exit_price = position.exitPrice,
     !.funding = position.netFunding,
     !.realised_pnl = RealisedPnl(position),
     !.pnl = Num(0),
     !.is_profitable = 0,
     !.type = "update"]

(* A flip that stamps the closing time and forgets the lifecycle tag.       *)
flipPositionUntagged(trader_position, position, end_date) ==
  [trader_position EXCEPT !.end_date = end_date, !.realised_pnl = Num(0)]

(* new Decimal(x), .minus(x), .times(x), .add(x) throw on a value that is   *)
(* no number.                                                              *)
flipPositionThrows(trader_position, position) ==
  \/ ~IsNum(position.sumOpen)
  \/ ~IsNum(position.size)
  \/ ~IsNum(position.sumClose)
  \/ ~IsNum(position.entryPrice)
  \/ ~IsNum(trader_position.sum_close)
  \/ Truthy(trader_position.exit_price) /\ ~IsNum(trader_position.exit_price)
  \/ ~IsNum(trader_position.limit_price)
  \/ ~IsNum(trader_position.funding)

flipPosition(trader_position, position, end_date) ==
  LET last_position ==
        position.sumOpen.v - Abs(position.size.v) - position.sumClose.v
      den == trader_position.sum_close.v + last_position
      avg_close ==
        IF Truthy(trader_position.exit_price)
        THEN DecDiv(last_position * position.entryPrice.v
                      + trader_position.sum_close.v * trader_position.exit_price.v,
                    den)
        ELSE position.entryPrice
      adjusted_size == IF trader_position.bias = 0 THEN -den ELSE den
      pnl ==
        CASE IsNum(avg_close) ->
               Num(adjusted_size * (avg_close.v - trader_position.limit_price.v)
                   + trader_position.funding.v)
          [] avg_close.t = "frac" ->
               Num((IF trader_position.bias = 0 THEN -1 ELSE 1)
                     * (last_position * position.entryPrice.v
                        + trader_position.sum_close.v * trader_position.exit_price.v
                        - trader_position.limit_price.v * den)
                   + trader_position.funding.v)
          [] OTHER -> NaN
  IN  [trader_position EXCEPT
         !.size = Num(adjusted_size),
         !.exit_price = avg_close,
         !.end_date = end_date,
         !.realised_pnl = Num(0),
         !.pnl = pnl,
         !.is_profitable = IF IsNum(pnl) /\ pnl.v > 0 THEN 1 ELSE 0,
         !.type = "close"]

(* A close that tags the lane and forgets the closing time.                *)
closePositionUnstamped(trader_position, position, end_date) ==
  [trader_position EXCEPT !.type = "close", !.realised_pnl = Num(0)]

(* A close that takes the closed size unsigned, whatever the side.         *)
closePositionUnsigned(trader_position, position, end_date) ==
  LET size == position.sumClose
      pnl == IF IsNum(size)
             THEN Num(size.v * (position.exitPrice.v - position.entryPrice.v))
             ELSE NaN
  IN  [trader_position EXCEPT
         !.size = size,
         !.limit_price = position.entryPrice,
         !.exit_price = position.exitPrice,
         !.end_date = end_date,
         !.realised_pnl = Num(0),
         !.pnl = pnl,
         !.is_profitable = IF IsNum(pnl) /\ pnl.v > 0 THEN 1 ELSE 0,
         !.type = "close"]

closePositionThrows(trader_position, position) ==
  \/ position.side = "LONG" /\ ~IsNum(position.sumClose)
  \/ ~IsNum(position.exitPrice)
  \/ ~IsNum(position.entryPrice)

closePosition(trader_position, position, end_date) ==
  LET size == IF position.side = "LONG" THEN position.sumClose
              ELSE JsNeg(position.sumClose)
      pnl == IF IsNum(size)
             THEN Num(size.v * (position.exitPrice.v - position.entryPrice.v))
             ELSE NaN
  IN  [trader_position EXCEPT
         !.size = size,
         !.limit_price = position.entryPrice,
         !.exit_price = position.exitPrice,
         !.end_date = end_date,
         !.realised_pnl = Num(0),
         !.pnl = pnl,
         !.is_profitable = IF IsNum(pnl) /\ pnl.v > 0 THEN 1 ELSE 0,
         !.type = "close"]


(************************ services/processor.ts ****************************)
(* convertToDecimal: null stays null; a numeric string n becomes the       *)
(* integer n * 10^decimals, kept as the pair (n, decimals); a fraction is  *)
(* cut to `decimals` digits; undefined, NaN and Infinity make it throw.    *)
convertToDecimalThrows(amount) == amount.t \in {"undefined", "NaN", "Infinity"}

convertToDecimal(amount, decimals) ==
  IF amount.t = "null" THEN Null
  ELSE [t |-> "units", v |-> amount, d |-> decimals]

(* convertToSqlDate: new Date(s).toISOString() cut to the second; an        *)
(* invalid date makes toISOString throw.                                   *)
convertToSqlDateThrows(dateString) == ~IsNum(dateString)

convertToSqlDate(dateString) == [t |-> "sqldate", v |-> dateString.v]

(* The worker of processorQueue fails on the first field that cannot be     *)
(* converted, before anything is pushed.                                   *)
RowThrows(trader_position) ==
  \/ convertToDecimalThrows(trader_position.size)
  \/ convertToDecimalThrows(trader_position.sum_open)
  \/ convertToDecimalThrows(trader_position.limit_price)
  \/ convertToDecimalThrows(trader_position.exit_price)
  \/ convertToSqlDateThrows(trader_position.start_date)
  \/ trader_position.end_date # Null
       /\ convertToSqlDateThrows(trader_position.end_date)
  \/ convertToDecimalThrows(trader_position.funding)
  \/ convertToDecimalThrows(trader_position.realised_pnl)
  \/ convertToDecimalThrows(trader_position.pnl)

(* The array pushed to TO_PROCESS. *)
Row(trader_position) ==
  [user |-> trader_position.user,
   trade_id |-> trader_position.trade_id,
   trader_address |-> trader_position.trader_address,
   token |-> trader_position.token,
   bias |-> trader_position.bias,
   size |-> convertToDecimal(trader_position.size, AMOUNT_DECIMALS),
   sum_open |-> convertToDecimal(trader_position.sum_open, AMOUNT_DECIMALS),
   limit_price |-> convertToDecimal(trader_position.limit_price, PRICE_DECIMALS),
   exit_price |-> convertToDecimal(trader_position.exit_price, PRICE_DECIMALS),
   start_date |-> convertToSqlDate(trader_position.start_date),
   end_date |-> IF trader_position.end_date = Null THEN Null
                ELSE convertToSqlDate(trader_position.end_date),
   funding |-> convertToDecimal(trader_position.funding, AMOUNT_DECIMALS),
   realised_pnl |-> convertToDecimal(trader_position.realised_pnl, AMOUNT_DECIMALS),
   pnl |-> convertToDecimal(trader_position.pnl, AMOUNT_DECIMALS),
   is_profitable |-> trader_position.is_profitable,
   type |-> trader_position.type]

(* processPositions: the row the INSERT stores under a trade_id the table   *)
(* does not hold.  The statement names no sum_close, which gets the        *)
(* column's default.                                                       *)
Inserted(row) ==
  [user |-> row.user, trade_id |-> row.trade_id,
   trader_address |-> row.trader_address, token |-> row.token,
   bias |-> row.bias, size |-> row.size, sum_open |-> row.sum_open,
   sum_close |-> Null, limit_price |-> row.limit_price,
   exit_price |-> row.exit_price, start_date |-> row.start_date,
   end_date |-> row.end_date, funding |-> row.funding,
   realised_pnl |-> row.realised_pnl, pnl |-> row.pnl,
   is_profitable |-> row.is_profitable]

(* ON DUPLICATE KEY UPDATE: the columns the clause names take the values   *)
(* of the row.                                                             *)
Updated(stored, row) ==
  [stored EXCEPT !.size = row.size, !.sum_open = row.sum_open,
                 !.limit_price = row.limit_price, !.exit_price = row.exit_price,
                 !.start_date = row.start_date, !.end_date = row.end_date,
                 !.funding = row.funding, !.realised_pnl = row.realised_pnl,
                 !.pnl = row.pnl, !.is_profitable = row.is_profitable]

(* processPositions: the message made of a row.                            *)
Message(position) == [trade_id |-> position.trade_id, type |-> "dydx"]

(* processPositions: the messages passed to sendMessage, one for each row   *)
(* whose last element is "open" or "close", in the order of the rows.      *)
Messages(positions) ==
  LET tagged == SelectSeq(positions,
                          LAMBDA position : position.type \in {"open", "close"})
  IN  [i \in 1..Len(tagged) |-> Message(tagged[i])]

(* The table after the bulk statement of processPositions has run over the *)
(* rows, in their order.                                                   *)
RECURSIVE processPositions(_, _)
processPositions(table, positions) ==
  IF positions = <<>> THEN table
  ELSE LET row == Head(positions)
           stored == IF row.trade_id \in DOMAIN table
                     THEN Updated(table[row.trade_id], row)
                     ELSE Inserted(row)
       IN  processPositions(
             [x \in DOMAIN table \cup {row.trade_id} |->
                IF x = row.trade_id THEN stored ELSE table[x]],
             Tail(positions))

(* The lines sqlBatchQuery logs. *)
NoDbLog == [line |-> "", attempt |-> 0, code |-> ""]

DeadlockLine(n) ==
  [line |-> "Deadlock detected. Retrying", attempt |-> n,
   code |-> "ER_LOCK_DEADLOCK"]

ErrorLine(code) == [line |-> "Database query error", attempt |-> 0, code |-> code]

(****************************** JS objects *********************************)
(* A Map: has, set, delete.                                                *)
Has(map, k) == k \in DOMAIN map
Set(map, k, val) == [x \in DOMAIN map \cup {k} |-> IF x = k THEN val ELSE map[x]]
Delete(map, k) == [x \in DOMAIN map \ {k} |-> map[x]]
EmptyMap == [x \in {} |-> 0]

(* A new object gets the least identity that is free.                      *)
NewId(heap) ==
  CHOOSE i \in 1..(Cardinality(DOMAIN heap) + 1) :
    /\ i \notin DOMAIN heap
    /\ \A j \in 1..(i - 1) : j \in DOMAIN heap


(* Objects that no map and no queued task refers to are gone.               *)
Referenced(cs, pq) ==
  UNION {{cs[c].TRADER_POSITIONS[k] : k \in DOMAIN cs[c].TRADER_POSITIONS} :
           c \in DOMAIN cs}
    \cup {pq[i].trader_position : i \in 1..Len(pq)}

Collect(h, cs, pq) == [id \in DOMAIN h \cap Referenced(cs, pq) |-> h[id]]

(***************************************************************************)
(* The state.                                                              *)
(*  cachedPairs     utils/symbols.ts: the tracked symbols                  *)
(*  conns           the sockets of the trader that are not closed, each    *)
(*                  with the TRADER_POSITIONS map and the messageQueue of  *)
(*                  its connect() call                                     *)
(*  websocket       the socket the closure variable `websocket` holds: the *)
(*                  one made by the last connect(), which every handler of *)
(*                  every socket of the session reads                      *)
(*  timers          the pending setTimeout(connect, RECONNECT_INTERVAL)    *)
(*  connects        the connect() calls so far                            *)
(*  shouldReconnect the flag closeConnection() clears                      *)
(*  heartbeatTimer  the socket the pending heartbeat timeout closes; the   *)
(*                  variable is the module's, shared by the sessions of    *)
(*                  all traders                                            *)
(*  heartbeatSetAt  the frames that had been received when the pending     *)
(*                  heartbeat timeout was set                              *)
(*  reconnectDelay  the delay of the timer for connect() that was set last *)
(*  height          the feed: the block of the last fill it has reported   *)
(*  heap            the trader_position objects, by identity               *)
(*  cur             the frame the message queue's worker is handling, and  *)
(*                  how far its loop is                                    *)
(*  frames          the frames received so far                             *)
(*  caseLog         the CASE line updatePosition logged last, or the error *)
(*                  line that followed it                                  *)
(*  processorQueue  the tasks pushed by aggregatePositions                 *)
(*  TO_PROCESS      the pending batch                                      *)
(*  is_processing, to_process, attempt   the flush in progress             *)
(*  db              the table trades_dex, by trade_id                      *)
(*  dbLog           the line sqlBatchQuery logged last                     *)
(*  socketSubscriptions   index.ts: the session of each subscribed address *)
(*  sessions        the sessions initWebSocketTraderMemory has made, each  *)
(*                  with its flag, its last socket and its pending timer   *)
(*  traders         the roster the last run of connectToTraders worked on  *)
(*  fetch           the result of getTraders() that a run waits for        *)
(*  messages        the messages the processPositions call in progress has *)
(*                  passed to sendMessage                                  *)
(*  channel         RabbitMQClient: connect() has set this.channel         *)
(*  running         the process has not exited                             *)
(***************************************************************************)
VARIABLES cachedPairs, conns, websocket, timers, connects, shouldReconnect,
          heartbeatTimer, heartbeatSetAt, reconnectDelay, heap, cur, frames,
          caseLog, processorQueue, TO_PROCESS, is_processing, to_process,
          attempt, db, dbLog, socketSubscriptions, sessions, traders, fetch,
          height, messages, channel, running

vars == <<cachedPairs, conns, websocket, timers, connects, shouldReconnect,
          heartbeatTimer, heartbeatSetAt, reconnectDelay, heap, cur, frames,
          caseLog, processorQueue, TO_PROCESS, is_processing, to_process,
          attempt, db, dbLog, socketSubscriptions, sessions, traders, fetch,
          height, messages, channel, running>>

connVars == <<conns, websocket, timers, connects, shouldReconnect,
              heartbeatTimer, heartbeatSetAt, reconnectDelay>>
flushVars == <<TO_PROCESS, is_processing, to_process, attempt, db, dbLog>>
rosterVars == <<socketSubscriptions, sessions, traders, fetch>>
notifyVars == <<messages, channel, running>>

(* The worker of messageQueue between two frames; while it handles a frame, *)
(* `n` counts the entries its loop has looked at and `seen` holds their    *)
(* markets; `account` is what the worker made of the id of the frame.     *)
Idle ==
  [kind |-> "idle", conn |-> 0, account |-> Address, fills |-> <<>>, n |-> 0,
   seen |-> {}]

(*************************** utils/symbols.ts ******************************)
(* A filter that lets every symbol through.                                *)
isTrackedSymbolAny(symbol, pairs) == TRUE

(* cachedPairs.has(symbol) *)
isTrackedSymbol(symbol, pairs) == symbol \in pairs

(**************************** utils/trading.ts *****************************)
(* The ledger as one call of updatePosition or processSubscriptions sees    *)
(* it: the map of its connection, the objects, the processor queue.        *)
Ledger(c) ==
  [map |-> conns[c].TRADER_POSITIONS, heap |-> heap, pq |-> processorQueue,
   log |-> caseLog]

(* An aggregatePositions that pushes nothing.                              *)
aggregateNothing(L, id) == L

(* aggregatePositions(trader_position): processorQueue.push({trader_position}) *)
aggregatePositions(L, id) ==
  [L EXCEPT !.pq = Append(@, [trader_position |-> id])]

Failed(L) == [L EXCEPT !.log = "Error updating position"]

(* processSubscriptions without the check for an existing lane.            *)
processSubscriptionOverwrites(L, user, traderAddress, symbol_, position, pairs) ==
  LET symbol == StripDashes(symbol_)
      id == NewId(L.heap)
  IN  IF ~isTrackedSymbol(symbol, pairs) THEN L
      ELSE IF createNewPositionThrows(position) THEN L
      ELSE [L EXCEPT !.heap = Set(@, id,
                                  createNewPosition(user, position, traderAddress,
                                                    position.createdAtHeight,
                                                    position.createdAt, "update")),
                     !.map = Set(@, symbol, id),
                     !.pq = Append(@, [trader_position |-> id])]

(* One pass of the loop of processSubscriptions, for the key symbol_.       *)
processSubscription(L, user, traderAddress, symbol_, position, pairs) ==
  LET symbol == StripDashes(symbol_)
      id == NewId(L.heap)
  IN  IF ~isTrackedSymbol(symbol, pairs) THEN L
      ELSE IF Has(L.map, symbol) THEN L
      ELSE IF createNewPositionThrows(position) THEN L
      ELSE aggregatePositions(
             [L EXCEPT !.heap = Set(@, id,
                                    createNewPosition(user, position, traderAddress,
                                                      position.createdAtHeight,
                                                      position.createdAt, "update")),
                       !.map = Set(@, symbol, id)],
             id)

(* One pass of the loop of updatePosition, for one position of the frame.   *)
updateOnePosition(L, user, traderAddress, position, fills, pairs) ==
  IF position.market = NoMarket THEN Failed(L)
  ELSE
  LET symbol == StripDashes(position.market)
      bias == Bias(position.side)
      id == NewId(L.heap)
  IN  IF ~isTrackedSymbol(symbol, pairs) THEN L
      ELSE IF ~Has(L.map, symbol) THEN
        (* CASE 1: create completely new position *)
        IF fills = <<>> THEN Failed(L)
        ELSE aggregatePositions(
               [L EXCEPT !.heap = Set(@, id,
                                      createNewPosition(user, position, traderAddress,
                                                        fills[1].createdAtHeight,
                                                        fills[1].createdAt, "open")),
                         !.map = Set(@, symbol, id),
                         !.log = "CASE 1"],
               id)
      ELSE
      LET old == L.map[symbol]
          trader_position == L.heap[old]
      IN  IF position.status = OPEN_STATUS /\ trader_position.bias = bias THEN
            (* CASE 2: update existing position *)
            aggregatePositions(
              [L EXCEPT !.heap[old] = updateExistingPosition(trader_position, position),
                        !.log = "CASE 2"],
              old)
          ELSE IF position.status = OPEN_STATUS /\ trader_position.bias # bias THEN
            (* CASE 3: change direction of the position *)
            IF fills = <<>> \/ flipPositionThrows(trader_position, position)
            THEN Failed(L)
            ELSE LET closed ==
                       aggregatePositions(
                         [L EXCEPT !.heap[old] =
                                     flipPosition(trader_position, position,
                                                  fills[1].createdAt)],
                         old)
                 IN  aggregatePositions(
                       [closed EXCEPT
                          !.heap = Set(@, id,
                                       createNewPosition(user, position, traderAddress,
                                                         fills[1].createdAtHeight,
                                                         fills[1].createdAt, "open")),
                          !.map = Set(@, symbol, id),
                          !.log = "CASE 3"],
                       id)
          ELSE IF position.status = CLOSED_STATUS THEN
            (* CASE 4: close completely the position *)
            IF fills = <<>> \/ closePositionThrows(trader_position, position)
            THEN Failed(L)
            ELSE aggregatePositions(
                   [L EXCEPT !.heap[old] =
                               closePosition(trader_position, position,
                                             fills[1].createdAt),
                             !.map = Delete(@, symbol),
                             !.log = "CASE 4"],
                   old)
          ELSE Failed(L)    (* throw "Unrecognised case" *)


(* The ledger written back after a pass of one of the two loops.            *)
Store(c, L) ==
  /\ conns' = [conns EXCEPT ![c].TRADER_POSITIONS = L.map]
  /\ heap' = Collect(L.heap, conns', L.pq)
  /\ processorQueue' = L.pq
  /\ caseLog' = L.log

(************************* services/websocket.ts ***************************)
(* connect(): a socket that is connecting and has sent no subscribe         *)
(* request, an empty map, an empty queue.                                  *)
NewSocket ==
  [state |-> "connecting", subscribes |-> 0, TRADER_POSITIONS |-> EmptyMap,
   messageQueue |-> <<>>, stalled |-> FALSE]

(* No query of getTraders() is under way.                                   *)
NoFetch == [state |-> "none", rows |-> <<>>]

(* The heartbeat timer: not set, set for the socket of another trader's     *)
(* session, or set for socket c of this trader.                            *)
NoTimer == 0
PeerSocket == -1

(* resetHeartbeatTimer(websocket): the pending timeout is cleared and one   *)
(* that closes `websocket` is set.                                         *)
resetHeartbeatTimer(c) == c

(* A queue that hands its worker the task that came last.                   *)
shiftLast(tasks) == tasks[Len(tasks)]

(* async.queue hands its worker the task that has waited longest.          *)

shift(tasks) == Head(tasks)

(* The tasks left in the queue once the worker has its task.                *)
Shifted(tasks) == Tail(tasks)

Init ==
  /\ cachedPairs \in PairSets
  /\ conns = [c \in {1} |-> NewSocket]
  /\ websocket = 1
  /\ timers = 0
  /\ connects = 1
  /\ shouldReconnect = TRUE
  /\ heartbeatSetAt = 0
  /\ reconnectDelay = 0
  /\ heartbeatTimer = NoTimer
  /\ heap = EmptyMap
  /\ cur = Idle
  /\ frames = 0
  /\ caseLog = ""
  /\ processorQueue = <<>>
  /\ TO_PROCESS = <<>>
  /\ is_processing = FALSE
  /\ to_process = <<>>
  /\ attempt = 0
  /\ db = EmptyMap
  /\ dbLog = NoDbLog
  /\ socketSubscriptions = EmptyMap
  /\ sessions = EmptyMap
  /\ traders = <<>>
  /\ fetch = NoFetch
  /\ height = FirstBlock
  /\ messages = <<>>
  /\ channel = FALSE
  /\ running = TRUE

(* A timer set by setTimeout(connect, RECONNECT_INTERVAL) fires: connect().  *)
(* The sockets are numbered in the order of the calls.                      *)
connect ==
  /\ cur = Idle
  /\ timers > 0
  /\ connects < MaxConnects
  /\ LET c == connects + 1
     IN  /\ conns' = [x \in DOMAIN conns \cup {c} |->
                        IF x = c THEN NewSocket ELSE conns[x]]
         /\ websocket' = c
  /\ timers' = timers - 1
  /\ connects' = connects + 1
  /\ UNCHANGED <<cachedPairs, shouldReconnect, heartbeatTimer, heap, cur,
                 frames, caseLog, processorQueue>>
  /\ UNCHANGED flushVars
  /\ UNCHANGED <<rosterVars, height, notifyVars>>
  /\ UNCHANGED <<heartbeatSetAt, reconnectDelay>>

(* websocket.send(data) on socket w: ws throws while w is connecting, sends  *)
(* on an open w, and drops the data without throwing once w is closing or  *)
(* closed.                                                                 *)
SendThrows(cs, w) == w \in DOMAIN cs /\ cs[w].state = "connecting"

Sent(cs, w) ==
  IF w \in DOMAIN cs /\ cs[w].state = "open"
  THEN [cs EXCEPT ![w].subscribes = @ + 1] ELSE cs

(* websocket.on("open") of socket c: the subscribe request is sent on the   *)
(* socket `websocket` holds and the heartbeat timer is set for that socket; *)
(* if the send throws, the catch logs it and no timer is set.              *)
OnOpen(c) ==
  /\ cur = Idle
  /\ conns[c].state = "connecting"
  /\ LET opened == [conns EXCEPT ![c].state = "open"]
     IN  IF SendThrows(opened, websocket)
         THEN /\ conns' = opened
              /\ UNCHANGED <<heartbeatTimer, heartbeatSetAt>>
         ELSE /\ conns' = Sent(opened, websocket)
              /\ heartbeatTimer' = resetHeartbeatTimer(websocket)
              /\ heartbeatSetAt' = frames
  /\ UNCHANGED <<cachedPairs, websocket, timers, connects, shouldReconnect,
                 heap, cur, frames, caseLog, processorQueue>>
  /\ UNCHANGED flushVars
  /\ UNCHANGED <<rosterVars, height, notifyVars>>
  /\ UNCHANGED reconnectDelay

(* websocket.on("ping") of socket c: the heartbeat timer is set for the     *)
(* socket `websocket` holds.                                               *)
OnPing(c) ==
  /\ cur = Idle
  /\ conns[c].state = "open"
  /\ heartbeatTimer' = resetHeartbeatTimer(websocket)
  /\ heartbeatSetAt' = frames
  /\ UNCHANGED <<cachedPairs, conns, websocket, timers, connects,
                 shouldReconnect, heap, cur, frames, caseLog, processorQueue>>
  /\ UNCHANGED flushVars
  /\ UNCHANGED <<rosterVars, height, notifyVars>>
  /\ UNCHANGED reconnectDelay

(* The socket of another trader's session opens or is pinged: its handler   *)
(* calls resetHeartbeatTimer with that socket.                             *)
PeerPing ==
  /\ cur = Idle
  /\ heartbeatTimer # PeerSocket
  /\ heartbeatTimer' = resetHeartbeatTimer(PeerSocket)
  /\ heartbeatSetAt' = frames
  /\ UNCHANGED <<cachedPairs, conns, websocket, timers, connects,
                 shouldReconnect, heap, cur, frames, caseLog, processorQueue>>
  /\ UNCHANGED flushVars
  /\ UNCHANGED <<rosterVars, height, notifyVars>>
  /\ UNCHANGED reconnectDelay

(* The heartbeat timeout fires: websocket.close() on the socket the timer   *)
(* was set for.  An open socket starts to close and emits "close" later;   *)
(* on a socket that is closing or closed, close() does nothing.            *)
HeartbeatTimeout ==
  /\ cur = Idle
  /\ heartbeatTimer # NoTimer
  /\ conns' = [c \in DOMAIN conns |->
                 IF c = heartbeatTimer /\ conns[c].state = "open"
                 THEN [conns[c] EXCEPT !.state = "closing"] ELSE conns[c]]
  /\ heartbeatTimer' = NoTimer
  /\ heartbeatSetAt' = 0
  /\ UNCHANGED <<cachedPairs, websocket, timers, connects, shouldReconnect,
                 heap, cur, frames, caseLog, processorQueue>>
  /\ UNCHANGED flushVars
  /\ UNCHANGED <<rosterVars, height, notifyVars>>
  /\ UNCHANGED reconnectDelay

(* A close handler that sets no timer.                                      *)
OnCloseSilent(c) ==
  /\ cur = Idle
  /\ conns' = [x \in DOMAIN conns \ {c} |-> conns[x]]
  /\ heap' = Collect(heap, conns', processorQueue)
  /\ UNCHANGED <<cachedPairs, websocket, timers, connects, shouldReconnect,
                 heartbeatTimer, cur, frames, caseLog, processorQueue>>
  /\ UNCHANGED flushVars
  /\ UNCHANGED <<rosterVars, height, notifyVars>>
  /\ UNCHANGED <<heartbeatSetAt, reconnectDelay>>

(* websocket.on("close"): the socket is gone, and with it the map and the   *)
(* queue of its connect() call; a timer for connect() is set if            *)
(* shouldReconnect.                                                        *)
OnClose(c) ==
  /\ cur = Idle
  /\ conns' = [x \in DOMAIN conns \ {c} |-> conns[x]]
  /\ heap' = Collect(heap, conns', processorQueue)
  /\ timers' = (IF shouldReconnect THEN timers + 1 ELSE timers)
  /\ reconnectDelay' = (IF shouldReconnect THEN RECONNECT_INTERVAL
                         ELSE reconnectDelay)
  /\ UNCHANGED <<cachedPairs, websocket, connects, shouldReconnect,
                 heartbeatTimer, cur, frames, caseLog, processorQueue>>
  /\ UNCHANGED flushVars
  /\ UNCHANGED <<rosterVars, height, notifyVars>>
  /\ UNCHANGED heartbeatSetAt

(* websocket.on("error"): a timer for connect() is set; the socket emits    *)
(* "close" next.                                                           *)
OnError(c) ==
  /\ cur = Idle
  /\ conns[c].state # "closing"
  /\ conns' = [conns EXCEPT ![c].state = "closing"]
  /\ timers' = timers + 1
  /\ reconnectDelay' = RECONNECT_INTERVAL
  /\ UNCHANGED <<cachedPairs, websocket, connects, shouldReconnect,
                 heartbeatTimer, heap, cur, frames, caseLog, processorQueue>>
  /\ UNCHANGED flushVars
  /\ UNCHANGED <<rosterVars, height, notifyVars>>
  /\ UNCHANGED heartbeatSetAt

(* closeConnection(): the heartbeat timer is cleared, whichever socket it   *)
(* was set for; shouldReconnect is cleared; websocket.close() on the       *)
(* socket made last.  An open socket starts to close; a socket that is     *)
(* still connecting gives up its handshake and emits "error", then         *)
(* "close"; on a socket that is closing or closed, close() does nothing.   *)
closeConnection ==
  /\ cur = Idle
  /\ shouldReconnect
  /\ shouldReconnect' = FALSE
  /\ heartbeatTimer' = NoTimer
  /\ heartbeatSetAt' = 0
  /\ conns' = [c \in DOMAIN conns |->
                 IF c = websocket /\ conns[c].state = "open"
                 THEN [conns[c] EXCEPT !.state = "closing"]
                 ELSE IF c = websocket /\ conns[c].state = "connecting"
                 THEN [conns[c] EXCEPT !.state = "aborted"]
                 ELSE conns[c]]
  /\ UNCHANGED <<cachedPairs, websocket, timers, connects, heap, cur, frames,
                 caseLog, processorQueue>>
  /\ UNCHANGED flushVars
  /\ UNCHANGED <<rosterVars, height, notifyVars>>
  /\ UNCHANGED reconnectDelay

(* websocket.on("message"): the frame is pushed to the messageQueue of the   *)
(* socket.                                                                 *)
OnMessage(c, frame) ==
  /\ cur = Idle
  /\ conns[c].state = "open"
  /\ frames < MaxFrames
  /\ frames' = frames + 1
  /\ height' = FeedHeight(frame, height)
  /\ height' >= height
  /\ conns' = [conns EXCEPT ![c].messageQueue = Append(@, frame)]
  /\ UNCHANGED <<cachedPairs, websocket, shouldReconnect, heartbeatTimer,
                 timers, connects, heap, cur, caseLog, processorQueue>>
  /\ UNCHANGED flushVars
  /\ UNCHANGED <<rosterVars, notifyVars>>
  /\ UNCHANGED <<heartbeatSetAt, reconnectDelay>>

(* The worker of messageQueue takes a frame of type "subscribed" and calls  *)
(* processSubscriptions.                                                   *)
OnSubscribed(c) ==
  /\ cur = Idle
  /\ conns[c].messageQueue # <<>>
  /\ ~conns[c].stalled
  /\ shift(conns[c].messageQueue) = Subscribed
  /\ conns' = [conns EXCEPT ![c].messageQueue = Shifted(@)]
  /\ cur' = [Idle EXCEPT !.kind = SUBSCRIPTION_TYPE, !.conn = c]
  /\ UNCHANGED <<cachedPairs, websocket, shouldReconnect, heartbeatTimer,
                 timers, connects, heap, frames, caseLog, processorQueue>>
  /\ UNCHANGED flushVars
  /\ UNCHANGED <<rosterVars, height, notifyVars>>
  /\ UNCHANGED <<heartbeatSetAt, reconnectDelay>>

(* The worker takes a snapshot whose id is missing: parsedMessage.id?.split *)
(* gives undefined, parsedMessage.account is neither "undefined" nor null,  *)
(* and processSubscriptions is called with the undefined account.          *)
OnSubscribedNoId(c) ==
  /\ cur = Idle
  /\ conns[c].messageQueue # <<>>
  /\ ~conns[c].stalled
  /\ shift(conns[c].messageQueue) = SubscribedNoId
  /\ conns' = [conns EXCEPT ![c].messageQueue = Shifted(@)]
  /\ cur' = [Idle EXCEPT !.kind = SUBSCRIPTION_TYPE, !.conn = c,
                         !.account = NoAccount]
  /\ UNCHANGED <<cachedPairs, websocket, shouldReconnect, heartbeatTimer,
                 timers, connects, heap, frames, caseLog, processorQueue>>
  /\ UNCHANGED flushVars
  /\ UNCHANGED <<rosterVars, height, notifyVars>>
  /\ UNCHANGED <<heartbeatSetAt, reconnectDelay>>

(* websocket.close() on socket w: an open socket starts to close, the       *)
(* handshake of a connecting one is aborted.                               *)
CloseCalled(cs, w) ==
  [x \in DOMAIN cs |->
     IF x = w /\ cs[x].state = "open" THEN [cs[x] EXCEPT !.state = "closing"]
     ELSE IF x = w /\ cs[x].state = "connecting"
     THEN [cs[x] EXCEPT !.state = "aborted"]
     ELSE cs[x]]

(* The worker takes a frame whose field `account` is null or "undefined":   *)
(* it calls websocket.close() on the socket the closure variable holds and *)
(* returns without calling the callback, so the queue of socket c hands    *)
(* its worker no further frame.                                            *)
OnUndefinedAccount(c) ==
  /\ cur = Idle
  /\ conns[c].messageQueue # <<>>
  /\ ~conns[c].stalled
  /\ shift(conns[c].messageQueue) = NullAccount
  /\ conns' = [CloseCalled(conns, websocket) EXCEPT
                 ![c].messageQueue = Shifted(@), ![c].stalled = TRUE]
  /\ UNCHANGED <<cachedPairs, websocket, shouldReconnect, heartbeatTimer,
                 timers, connects, heap, cur, frames, caseLog,
                 processorQueue>>
  /\ UNCHANGED flushVars
  /\ UNCHANGED <<rosterVars, height, notifyVars>>
  /\ UNCHANGED <<heartbeatSetAt, reconnectDelay>>

(* The next key of openPerpetualPositions. *)
SubscriptionStep(symbol_, position) ==
  /\ cur.kind = SUBSCRIPTION_TYPE
  /\ symbol_ \notin cur.seen
  /\ position.market \in {symbol_, NoMarket}
  /\ Store(cur.conn,
           processSubscription(Ledger(cur.conn), User, cur.account, symbol_,
                               position,
                               cachedPairs))
  /\ cur' = [cur EXCEPT !.seen = @ \cup {symbol_}]
  /\ UNCHANGED <<cachedPairs, websocket, shouldReconnect, heartbeatTimer,
                 timers, connects, frames>>
  /\ UNCHANGED flushVars
  /\ UNCHANGED <<rosterVars, height, notifyVars>>
  /\ UNCHANGED <<heartbeatSetAt, reconnectDelay>>

(* The worker takes a frame of type "channel_data" with perpetualPositions  *)
(* and fills, and calls updatePosition.                                    *)
OnChannelData(c, fills) ==
  /\ cur = Idle
  /\ conns[c].messageQueue # <<>>
  /\ ~conns[c].stalled
  /\ shift(conns[c].messageQueue) = ChannelData(fills)
  /\ conns' = [conns EXCEPT ![c].messageQueue = Shifted(@)]
  /\ cur' = [Idle EXCEPT !.kind = DATA_TYPE, !.conn = c, !.fills = fills]
  /\ UNCHANGED <<cachedPairs, websocket, shouldReconnect, heartbeatTimer,
                 timers, connects, heap, frames, caseLog, processorQueue>>
  /\ UNCHANGED flushVars
  /\ UNCHANGED <<rosterVars, height, notifyVars>>
  /\ UNCHANGED <<heartbeatSetAt, reconnectDelay>>

(* The next position of perpetualPositions. *)
PositionStep(position) ==
  /\ cur.kind = DATA_TYPE
  /\ cur.n < MaxPositions
  /\ Store(cur.conn,
           updateOnePosition(Ledger(cur.conn), User, cur.account, position,
                             cur.fills,
                             cachedPairs))
  /\ cur' = [cur EXCEPT !.n = @ + 1, !.seen = @ \cup {position.market}]
  /\ UNCHANGED <<cachedPairs, websocket, shouldReconnect, heartbeatTimer,
                 timers, connects, frames>>
  /\ UNCHANGED flushVars
  /\ UNCHANGED <<rosterVars, height, notifyVars>>
  /\ UNCHANGED <<heartbeatSetAt, reconnectDelay>>

(* The loop is over: return callback(). *)
FrameDone ==
  /\ cur # Idle
  /\ cur' = Idle
  /\ UNCHANGED <<cachedPairs, heap, frames, caseLog, processorQueue>>
  /\ UNCHANGED connVars
  /\ UNCHANGED flushVars
  /\ UNCHANGED <<rosterVars, height, notifyVars>>

(* The worker takes a channel_data frame without fills or without           *)
(* perpetualPositions: updatePosition returns at once.                     *)
OnChannelDataDropped(c) ==
  /\ cur = Idle
  /\ conns[c].messageQueue # <<>>
  /\ ~conns[c].stalled
  /\ shift(conns[c].messageQueue) = ChannelDataNoFills
  /\ conns' = [conns EXCEPT ![c].messageQueue = Shifted(@)]
  /\ UNCHANGED <<cachedPairs, websocket, shouldReconnect, heartbeatTimer,
                 timers, connects, heap, cur, frames, caseLog,
                 processorQueue>>
  /\ UNCHANGED flushVars
  /\ UNCHANGED <<rosterVars, height, notifyVars>>
  /\ UNCHANGED <<heartbeatSetAt, reconnectDelay>>

(* The worker takes a frame it throws on (JSON.parse fails,                 *)
(* perpetualPositions is not iterable): the catch sets a timer for         *)
(* connect() and leaves the socket as it is.                               *)
OnMessageFailure(c) ==
  /\ cur = Idle
  /\ conns[c].messageQueue # <<>>
  /\ ~conns[c].stalled
  /\ shift(conns[c].messageQueue) = Garbled
  /\ conns' = [conns EXCEPT ![c].messageQueue = Shifted(@)]
  /\ timers' = timers + 1
  /\ reconnectDelay' = RECONNECT_INTERVAL
  /\ UNCHANGED <<cachedPairs, websocket, shouldReconnect, heartbeatTimer,
                 connects, heap, cur, frames, caseLog, processorQueue>>
  /\ UNCHANGED flushVars
  /\ UNCHANGED <<rosterVars, height, notifyVars>>
  /\ UNCHANGED heartbeatSetAt

(* The token query of fetchAndCachePairs returns: the cache is replaced.    *)
fetchAndCachePairs(result) ==
  /\ cur = Idle
  /\ cachedPairs' = result
  /\ UNCHANGED <<heap, cur, frames, caseLog, processorQueue>>
  /\ UNCHANGED connVars
  /\ UNCHANGED flushVars
  /\ UNCHANGED <<rosterVars, height, notifyVars>>

(************************* services/processor.ts ***************************)
(* A worker that pushes the row of a task twice.                           *)
processorWorkerTwice ==
  /\ processorQueue # <<>>
  /\ LET trader_position == heap[Head(processorQueue).trader_position]
     IN  TO_PROCESS' = IF RowThrows(trader_position) THEN TO_PROCESS
                       ELSE TO_PROCESS \o <<Row(trader_position),
                                              Row(trader_position)>>
  /\ processorQueue' = Tail(processorQueue)
  /\ heap' = Collect(heap, conns, processorQueue')
  /\ UNCHANGED <<cachedPairs, cur, frames, caseLog, is_processing,
                 to_process, attempt, db, dbLog>>
  /\ UNCHANGED connVars
  /\ UNCHANGED <<rosterVars, height, notifyVars>>

(* A worker that does not call back when a conversion throws: the task     *)
(* stays the one in progress and the queue hands out no other.             *)
processorWorkerStalls ==
  /\ processorQueue # <<>>
  /\ ~RowThrows(heap[Head(processorQueue).trader_position])
  /\ TO_PROCESS' = Append(TO_PROCESS,
                          Row(heap[Head(processorQueue).trader_position]))
  /\ processorQueue' = Tail(processorQueue)
  /\ heap' = Collect(heap, conns, processorQueue')
  /\ UNCHANGED <<cachedPairs, cur, frames, caseLog, is_processing,
                 to_process, attempt, db, dbLog>>
  /\ UNCHANGED connVars
  /\ UNCHANGED <<rosterVars, height, notifyVars>>

(* A worker that puts the row of its task in front of the pending batch.   *)
processorWorkerPrepends ==
  /\ processorQueue # <<>>
  /\ LET trader_position == heap[Head(processorQueue).trader_position]
     IN  TO_PROCESS' = IF RowThrows(trader_position) THEN TO_PROCESS
                       ELSE <<Row(trader_position)>> \o TO_PROCESS
  /\ processorQueue' = Tail(processorQueue)
  /\ heap' = Collect(heap, conns, processorQueue')
  /\ UNCHANGED <<cachedPairs, cur, frames, caseLog, is_processing,
                 to_process, attempt, db, dbLog>>
  /\ UNCHANGED connVars
  /\ UNCHANGED <<rosterVars, height, notifyVars>>

(* The worker of processorQueue takes the next task and reads the object    *)
(* the task refers to, as it is now.                                       *)
processorWorker ==
  /\ processorQueue # <<>>
  /\ LET task == Head(processorQueue)
         trader_position == heap[task.trader_position]
     IN  TO_PROCESS' = IF RowThrows(trader_position) THEN TO_PROCESS
                       ELSE Append(TO_PROCESS, Row(trader_position))
  /\ processorQueue' = Tail(processorQueue)
  /\ heap' = Collect(heap, conns, processorQueue')
  /\ UNCHANGED <<cachedPairs, cur, frames, caseLog, is_processing,
                 to_process, attempt, db, dbLog>>
  /\ UNCHANGED connVars
  /\ UNCHANGED <<rosterVars, height, notifyVars>>


(* A clearQueue that leaves the pending batch as it is.                    *)
clearQueueKeeps == TO_PROCESS

(* clearQueue(): TO_PROCESS = []                                           *)
clearQueue == <<>>

(*************************** services/crons.ts *****************************)
(* The cron tick while no flush is in progress: the callback takes the       *)
(* pending batch and clears the queue; processPositions returns at once on  *)
(* an empty batch and starts the bulk write otherwise.                     *)
insertTrades ==
  /\ cur = Idle
  /\ ~is_processing
  /\ to_process' = (IF TO_PROCESS = <<>> THEN <<>> ELSE TO_PROCESS)
  /\ TO_PROCESS' = clearQueue
  /\ is_processing' = (to_process' # <<>>)
  /\ attempt' = (IF to_process' # <<>> THEN 1 ELSE 0)
  /\ UNCHANGED <<cachedPairs, heap, cur, frames, caseLog, processorQueue, db,
                 dbLog>>
  /\ UNCHANGED connVars
  /\ messages' = Messages(to_process')
  /\ UNCHANGED <<rosterVars, height, channel, running>>

(* A tick that takes the pending batch and starts a write although a flush  *)
(* is in progress.                                                         *)
insertTradesBusyFlushes ==
  /\ cur = Idle
  /\ is_processing
  /\ to_process' = TO_PROCESS
  /\ TO_PROCESS' = clearQueue
  /\ attempt' = 1
  /\ UNCHANGED <<cachedPairs, heap, cur, frames, caseLog, processorQueue,
                 is_processing, db, dbLog>>
  /\ UNCHANGED connVars
  /\ messages' = Messages(to_process')
  /\ UNCHANGED <<rosterVars, height, channel, running>>

(* The cron tick while a flush is in progress: if (is_processing) return.   *)
insertTradesBusy ==
  /\ cur = Idle
  /\ is_processing
  /\ UNCHANGED vars

(************************** utils/database.ts ******************************)
MAX_RETRIES == 5

(* pool.query resolves: the rows are in the table, sqlBatchQuery returns,   *)
(* the callback's finally runs.                                            *)
QuerySucceeds ==
  /\ cur = Idle
  /\ is_processing
  /\ db' = processPositions(db, to_process)
  /\ is_processing' = FALSE
  /\ to_process' = <<>>
  /\ attempt' = 0
  /\ UNCHANGED <<cachedPairs, heap, cur, frames, caseLog, processorQueue,
                 TO_PROCESS, dbLog>>
  /\ UNCHANGED connVars
  /\ messages' = <<>>
  /\ UNCHANGED <<rosterVars, height, channel, running>>

(* A retry that passes the messages of the batch to sendMessage again.      *)
QueryDeadlockNotifies ==
  /\ cur = Idle
  /\ is_processing
  /\ attempt < MAX_RETRIES
  /\ attempt' = attempt + 1
  /\ dbLog' = DeadlockLine(attempt)
  /\ messages' = messages \o Messages(to_process)
  /\ UNCHANGED <<cachedPairs, heap, cur, frames, caseLog, processorQueue,
                 TO_PROCESS, is_processing, to_process, db>>
  /\ UNCHANGED connVars
  /\ UNCHANGED <<rosterVars, height, channel, running>>

(* pool.query rejects with ER_LOCK_DEADLOCK and attempts are left: the       *)
(* statement has been rolled back; the query is made again after the       *)
(* delay.                                                                  *)
QueryDeadlock ==
  /\ cur = Idle
  /\ is_processing
  /\ attempt < MAX_RETRIES
  /\ attempt' = attempt + 1
  /\ dbLog' = DeadlockLine(attempt)
  /\ UNCHANGED <<cachedPairs, heap, cur, frames, caseLog, processorQueue,
                 TO_PROCESS, is_processing, to_process, db>>
  /\ UNCHANGED connVars
  /\ UNCHANGED <<rosterVars, height, notifyVars>>

(* A sqlBatchQuery that makes the query again after any error.              *)
QueryFailsRetries(code) ==
  /\ cur = Idle
  /\ is_processing
  /\ attempt < MAX_RETRIES
  /\ attempt' = attempt + 1
  /\ dbLog' = ErrorLine(code)
  /\ UNCHANGED <<cachedPairs, heap, cur, frames, caseLog, processorQueue,
                 TO_PROCESS, is_processing, to_process, db>>
  /\ UNCHANGED connVars
  /\ UNCHANGED <<rosterVars, height, notifyVars>>

(* A flush that puts the rows of its batch back when the write fails.       *)
QueryFailsRebuffers(code) ==
  /\ cur = Idle
  /\ is_processing
  /\ code = "ER_LOCK_DEADLOCK" => attempt = MAX_RETRIES
  /\ is_processing' = FALSE
  /\ to_process' = <<>>
  /\ attempt' = 0
  /\ dbLog' = ErrorLine(code)
  /\ TO_PROCESS' = to_process \o TO_PROCESS
  /\ UNCHANGED <<cachedPairs, heap, cur, frames, caseLog, processorQueue, db>>
  /\ UNCHANGED connVars
  /\ messages' = <<>>
  /\ UNCHANGED <<rosterVars, height, channel, running>>

(* pool.query rejects with another error, or with ER_LOCK_DEADLOCK on the    *)
(* last attempt: sqlBatchQuery throws, the callback logs it, finally runs.  *)
QueryFails(code) ==
  /\ cur = Idle
  /\ is_processing
  /\ code = "ER_LOCK_DEADLOCK" => attempt = MAX_RETRIES
  /\ is_processing' = FALSE
  /\ to_process' = <<>>
  /\ attempt' = 0
  /\ dbLog' = ErrorLine(code)
  /\ UNCHANGED <<cachedPairs, heap, cur, frames, caseLog, processorQueue,
                 TO_PROCESS, db>>
  /\ UNCHANGED connVars
  /\ messages' = <<>>
  /\ UNCHANGED <<rosterVars, height, channel, running>>

ErrorCodes == {"ER_LOCK_DEADLOCK", "ECONNREFUSED"}

(***************************************************************************)
(* The specifications.                                                     *)
(***************************************************************************)
(* The worker of processorQueue has nothing left to do.                     *)
Drained == processorQueue = <<>>

(* Nothing is on its way to the database.                                  *)
Quiescent == Drained /\ TO_PROCESS = <<>> /\ ~is_processing

(* No frame waits in a messageQueue.                                       *)
NoFrameWaits == \A c \in DOMAIN conns : conns[c].messageQueue = <<>>

(* Spec: the ledger engine on one connection, fed every position object the *)
(* feed can send.  The schedule is the one in which the processor worker   *)
(* runs as soon as a task is pushed and a frame arrives when the flush of  *)
(* the rows of the frame before it is over; SpecPipeline has every         *)
(* schedule.  The ledger engine reads nothing of the table: here the       *)
(* database refuses the connection, which keeps the rows of past frames    *)
(* out of the state; SpecFrames, SpecPipeline and SpecStore have the       *)
(* writes.                                                                 *)
Next ==
  \/ OnOpen(1)
  \/ \E frame \in Frames : Quiescent /\ NoFrameWaits /\ OnMessage(1, frame)
  \/ OnSubscribed(1)
  \/ \E m \in Markets, p \in Payloads : Drained /\ SubscriptionStep(m, p)
  \/ \E f \in FillLists : OnChannelData(1, f)
  \/ \E p \in Payloads : Drained /\ PositionStep(p)
  \/ Drained /\ FrameDone
  \/ OnChannelDataDropped(1)
  \/ \E r \in PairSets : Quiescent /\ fetchAndCachePairs(r)
  \/ processorWorker
  \/ Drained /\ insertTrades
  \/ Drained /\ QueryFails("ECONNREFUSED")

Spec == Init /\ [][Next]_vars

(***************************************************************************)
(* The ledger engine: what one pass of a loop does to the live map, the    *)
(* lanes and the processor queue.  A row is produced when a task for a     *)
(* lane is pushed to processorQueue.                                       *)
(***************************************************************************)
(* The live map of the connection whose frame is being handled, before     *)
(* and after the step.                                                     *)
LiveMap == conns[cur.conn].TRADER_POSITIONS
LiveMapAfter == conns'[cur.conn].TRADER_POSITIONS

(* The lanes that existed before the step are as they were.                *)
LanesKept == \A id \in DOMAIN heap : id \in DOMAIN heap' /\ heap'[id] = heap[id]

(* The other instruments of the live map are as they were.                 *)
OthersKept(symbol) ==
  \A k \in (DOMAIN LiveMap \cup DOMAIN LiveMapAfter) \ {symbol} :
    /\ k \in DOMAIN LiveMap
    /\ k \in DOMAIN LiveMapAfter
    /\ LiveMapAfter[k] = LiveMap[k]
    /\ heap'[LiveMap[k]] = heap[LiveMap[k]]

(* The step is a pass of the loop of updatePosition, or of the loop of     *)
(* processSubscriptions.                                                   *)
UpdatePass == cur.kind = DATA_TYPE /\ cur'.n = cur.n + 1
SnapshotPass == cur.kind = SUBSCRIPTION_TYPE /\ cur'.seen # cur.seen

(* An incremental update with a fill, about a tracked instrument.          *)
TrackedUpdate(p) ==
  /\ p.market # NoMarket
  /\ StripDashes(p.market) \in cachedPairs
  /\ cur.fills # <<>>
  /\ PositionStep(p)

(* The numbers of a report are numeric strings (the exit price may be      *)
(* null), and so are those of a lane.                                      *)
NumericReport(p) ==
  /\ IsNum(p.size) /\ IsNum(p.sumOpen) /\ IsNum(p.sumClose)
  /\ IsNum(p.entryPrice) /\ IsNum(p.netFunding)
  /\ p.exitPrice = Null \/ IsNum(p.exitPrice)

NumericLane(tp) ==
  /\ IsNum(tp.sum_close) /\ IsNum(tp.limit_price) /\ IsNum(tp.funding)
  /\ tp.exit_price = Null \/ IsNum(tp.exit_price)

(* C2: an entry of a snapshot or of an incremental update for an instrument *)
(* that the symbol filter does not track creates, changes and removes no   *)
(* lane and pushes no row.                                                 *)
C2_UntrackedIgnored ==
  [][/\ UpdatePass =>
          \A p \in Payloads :
            (/\ p.market # NoMarket
             /\ StripDashes(p.market) \notin cachedPairs
             /\ PositionStep(p))
              => UNCHANGED <<conns, heap, processorQueue>>
     /\ SnapshotPass =>
          \A m \in Markets, p \in Payloads :
            (StripDashes(m) \notin cachedPairs /\ SubscriptionStep(m, p))
              => UNCHANGED <<conns, heap, processorQueue>>]_vars

(* An update about ETH-USD has been handled while ETHUSD had a lane and    *)
(* was no longer tracked.                                                  *)
C2_Witness ==
  /\ cur.kind = DATA_TYPE
  /\ cur.seen = {ETH}
  /\ StripDashes(ETH) \notin cachedPairs
  /\ Has(conns[cur.conn].TRADER_POSITIONS, StripDashes(ETH))

(* C3: a snapshot entry for a tracked instrument without a lane creates one *)
(* lane and pushes one row for it, tagged `update`; for an instrument with *)
(* a lane it creates no lane, pushes no row and changes no field.          *)
C3_Snapshot ==
  [][SnapshotPass => \A m \in Markets, p \in Payloads :
       (/\ p.market = m
        /\ StripDashes(m) \in cachedPairs
        /\ SubscriptionStep(m, p))
         => IF Has(LiveMap, StripDashes(m))
            THEN UNCHANGED <<conns, heap, processorQueue>>
            ELSE /\ DOMAIN LiveMapAfter = DOMAIN LiveMap \cup {StripDashes(m)}
                 /\ OthersKept(StripDashes(m))
                 /\ LanesKept
                 /\ LiveMapAfter[StripDashes(m)] \notin DOMAIN heap
                 /\ heap'[LiveMapAfter[StripDashes(m)]].type = "update"
                 /\ heap'[LiveMapAfter[StripDashes(m)]].token = StripDashes(m)
                 /\ processorQueue' =
                      Append(processorQueue,
                             [trader_position |-> LiveMapAfter[StripDashes(m)]])]_vars

(* A snapshot has been applied to BTC-USD, whose lane an update had opened, *)
(* and then to ETH-USD, which had none.                                    *)
C3_Witness ==
  /\ cur.kind = SUBSCRIPTION_TYPE
  /\ cur.seen = {BTC, ETH}
  /\ Has(conns[cur.conn].TRADER_POSITIONS, StripDashes(BTC))
  /\ Has(conns[cur.conn].TRADER_POSITIONS, StripDashes(ETH))
  /\ heap[conns[cur.conn].TRADER_POSITIONS[StripDashes(BTC)]].type = "open"
  /\ heap[conns[cur.conn].TRADER_POSITIONS[StripDashes(ETH)]].type = "update"
  /\ processorQueue =
       <<[trader_position |-> conns[cur.conn].TRADER_POSITIONS[StripDashes(ETH)]]>>

(* C4: an update with status OPEN for an instrument whose lane has the      *)
(* other direction pushes exactly two rows, first the old lane, tagged     *)
(* `close` and with the trade identifier it had, then a new lane tagged    *)
(* `open`; the live map then holds the new lane only, of the other         *)
(* direction.                                                              *)
C4_Flip ==
  [][UpdatePass => \A p \in Payloads :
       (/\ p.status = OPEN_STATUS
        /\ NumericReport(p)
        /\ Has(LiveMap, StripDashes(p.market))
        /\ heap[LiveMap[StripDashes(p.market)]].bias
             # (IF p.side = "LONG" THEN 1 ELSE 0)
        /\ NumericLane(heap[LiveMap[StripDashes(p.market)]])
        /\ TrackedUpdate(p))
         => LET symbol == StripDashes(p.market)
                old == LiveMap[symbol]
                new == LiveMapAfter[symbol]
            IN  /\ DOMAIN LiveMapAfter = DOMAIN LiveMap
                /\ OthersKept(symbol)
                /\ new \notin DOMAIN heap
                /\ processorQueue' =
                     processorQueue \o <<[trader_position |-> old],
                                         [trader_position |-> new]>>
                /\ heap'[old].type = "close"
                /\ heap'[old].trade_id = heap[old].trade_id
                /\ heap'[new].type = "open"
                /\ heap'[new].token = symbol
                /\ heap'[new].bias = 1 - heap[old].bias
                /\ heap'[new].trade_id # heap[old].trade_id]_vars

(* A flip has just pushed its two rows: the closed long lane, which the    *)
(* live map no longer holds, and the short lane it holds now.              *)
C4_Witness ==
  /\ cur.kind = DATA_TYPE
  /\ caseLog = "CASE 3"
  /\ Len(processorQueue) = 2
  /\ heap[processorQueue[1].trader_position].type = "close"
  /\ heap[processorQueue[1].trader_position].bias = 1
  /\ heap[processorQueue[2].trader_position].type = "open"
  /\ heap[processorQueue[2].trader_position].bias = 0
  /\ conns[cur.conn].TRADER_POSITIONS[heap[processorQueue[2].trader_position].token]
       = processorQueue[2].trader_position

(* C5: an update with status CLOSED for an instrument that has a lane      *)
(* pushes exactly one row, the lane tagged `close` with a closing time     *)
(* that is not null, and removes the lane from the live map.               *)
C5_Close ==
  [][UpdatePass => \A p \in Payloads :
       (/\ p.status = CLOSED_STATUS
        /\ IsNum(p.sumClose) /\ IsNum(p.entryPrice) /\ IsNum(p.exitPrice)
        /\ Has(LiveMap, StripDashes(p.market))
        /\ TrackedUpdate(p))
         => LET symbol == StripDashes(p.market)
                old == LiveMap[symbol]
            IN  /\ DOMAIN LiveMapAfter = DOMAIN LiveMap \ {symbol}
                /\ OthersKept(symbol)
                /\ processorQueue' =
                     Append(processorQueue, [trader_position |-> old])
                /\ heap'[old].type = "close"
                /\ heap'[old].end_date # Null
                /\ heap'[old].end_date = cur.fills[1].createdAt
                /\ heap'[old].trade_id = heap[old].trade_id]_vars

(* A close has just pushed its row, and the instrument has no lane.        *)
C5_Witness ==
  /\ cur.kind = DATA_TYPE
  /\ caseLog = "CASE 4"
  /\ Len(processorQueue) = 1
  /\ heap[processorQueue[1].trader_position].type = "close"
  /\ heap[processorQueue[1].trader_position].end_date = Num(2)
  /\ ~Has(conns[cur.conn].TRADER_POSITIONS,
          heap[processorQueue[1].trader_position].token)

(* C6: an update about a tracked instrument that has no lane creates one   *)
(* lane and pushes exactly one row for it, tagged `open`.                  *)
C6_New ==
  [][UpdatePass => \A p \in Payloads :
       (~Has(LiveMap, StripDashes(p.market)) /\ TrackedUpdate(p))
         => LET symbol == StripDashes(p.market)
                new == LiveMapAfter[symbol]
            IN  /\ DOMAIN LiveMapAfter = DOMAIN LiveMap \cup {symbol}
                /\ OthersKept(symbol)
                /\ LanesKept
                /\ new \notin DOMAIN heap
                /\ DOMAIN heap' = DOMAIN heap \cup {new}
                /\ processorQueue' =
                     Append(processorQueue, [trader_position |-> new])
                /\ heap'[new].type = "open"
                /\ heap'[new].token = symbol
                /\ heap'[new].end_date = Null]_vars

(* An update has just opened the first lane of the connection.             *)
C6_Witness ==
  /\ cur.kind = DATA_TYPE
  /\ caseLog = "CASE 1"
  /\ Len(processorQueue) = 1
  /\ heap[processorQueue[1].trader_position].type = "open"
  /\ DOMAIN heap = {processorQueue[1].trader_position}
  /\ conns[cur.conn].TRADER_POSITIONS[heap[processorQueue[1].trader_position].token]
       = processorQueue[1].trader_position

(***************************************************************************)
(* SpecArith: the arithmetic of flipPosition and closePosition.  The state *)
(* at the start is a connection whose live map holds one lane of BTC-USD,  *)
(* opened from one of ArithLanes' reports, with an incremental frame just  *)
(* received; the one step applies updatePosition to the frame's first      *)
(* position, one of ArithPayloads.                                         *)
(***************************************************************************)
ArithLaneNumbers ==
  [size : {Num(5), Num(10)}, sumOpen : {Num(10)}, sumClose : {Num(0), Num(5)},
   entryPrice : {Num(50), Num(100)}, exitPrice : {Null, Num(40)},
   netFunding : {Num(0), Num(2)}]

ArithNumbers ==
  [size : {Num(5), Num(10)}, sumOpen : {Num(10), Num(20)},
   sumClose : {Num(0), Num(5)}, entryPrice : {Num(50), Num(100), Num(110)},
   exitPrice : {Null, Num(40)}, netFunding : {Num(0)}]

ArithLanes ==
  {createNewPosition(User, Payload(BTC, s, OPEN_STATUS, n), Address,
                     Num(1), Num(1), "update") :
     s \in Sides, n \in ArithLaneNumbers}

ArithPayloads ==
  {Payload(BTC, s, st, n) :
     s \in Sides, st \in {OPEN_STATUS, CLOSED_STATUS}, n \in ArithNumbers}

InitArith ==
  /\ cachedPairs \in PairSets
  /\ \E lane \in ArithLanes :
       /\ heap = [id \in {1} |-> lane]
       /\ conns = [c \in {1} |->
                     [NewSocket EXCEPT
                        !.state = "open", !.subscribes = 1,
                        !.TRADER_POSITIONS = [k \in {lane.token} |-> 1]]]
  /\ websocket = 1
  /\ timers = 0
  /\ connects = 1
  /\ shouldReconnect = TRUE
  /\ heartbeatSetAt = 0
  /\ reconnectDelay = 0
  /\ heartbeatTimer = NoTimer
  /\ cur = [Idle EXCEPT !.kind = DATA_TYPE, !.conn = 1, !.fills = <<Fill(2)>>]
  /\ frames = 1
  /\ caseLog = ""
  /\ processorQueue = <<>>
  /\ TO_PROCESS = <<>>
  /\ is_processing = FALSE
  /\ to_process = <<>>
  /\ attempt = 0
  /\ db = EmptyMap
  /\ dbLog = NoDbLog
  /\ socketSubscriptions = EmptyMap
  /\ sessions = EmptyMap
  /\ traders = <<>>
  /\ fetch = NoFetch
  /\ height = FirstBlock + 1
  /\ messages = <<>>
  /\ channel = FALSE
  /\ running = TRUE

NextArith == \E p \in ArithPayloads : cur.n = 0 /\ PositionStep(p)

SpecArith == InitArith /\ [][NextArith]_vars

(* The size a flip closes: what the lane had closed before, and what the   *)
(* report says was opened and is neither held nor closed.                  *)
ClosingSize(tp, p) ==
  tp.sum_close.v + p.sumOpen.v - (IF p.size.v < 0 THEN -p.size.v ELSE p.size.v)
    - p.sumClose.v

(* C7: the `close` row of a flip of a lane that has no exit price yet has  *)
(* PnL = closing size x (reported entry price - the lane's entry price)    *)
(* + the lane's funding, the closing size negative for a short lane, and   *)
(* the reported entry price as exit price; the new lane has the other      *)
(* direction.  For a long lane of size 10, entry price 100, funding 0, a   *)
(* reported entry price 110 and closing size 10, the PnL is 100.           *)
C7_FlipPnl ==
  [][UpdatePass => \A p \in ArithPayloads :
       (/\ p.status = OPEN_STATUS
        /\ Has(LiveMap, StripDashes(p.market))
        /\ heap[LiveMap[StripDashes(p.market)]].bias
             # (IF p.side = "LONG" THEN 1 ELSE 0)
        /\ heap[LiveMap[StripDashes(p.market)]].exit_price = Null
        /\ TrackedUpdate(p))
         => LET symbol == StripDashes(p.market)
                old == LiveMap[symbol]
                new == LiveMapAfter[symbol]
                lane == heap[old]
                closing == ClosingSize(lane, p)
                signed == IF lane.bias = 1 THEN closing ELSE -closing
            IN  /\ heap'[old].type = "close"
                /\ heap'[old].size = Num(signed)
                /\ heap'[old].exit_price = p.entryPrice
                /\ heap'[old].pnl =
                     Num(signed * (p.entryPrice.v - lane.limit_price.v)
                         + lane.funding.v)
                /\ heap'[old].is_profitable
                     = (IF heap'[old].pnl.v > 0 THEN 1 ELSE 0)
                /\ heap'[new].bias = 1 - lane.bias
                /\ (/\ lane.bias = 1
                    /\ lane.size = Num(10)
                    /\ lane.limit_price = Num(100)
                    /\ lane.funding = Num(0)
                    /\ p.entryPrice = Num(110)
                    /\ closing = 10)
                     => heap'[old].pnl = Num(100) /\ heap'[new].bias = 0]_vars

(* The flip of the claim's example has pushed its rows: the long lane of   *)
(* entry price 100, closed with size 10 at 110 and PnL 100, and a short    *)
(* lane.                                                                   *)
C7_Witness ==
  /\ caseLog = "CASE 3"
  /\ Len(processorQueue) = 2
  /\ heap[processorQueue[1].trader_position].type = "close"
  /\ heap[processorQueue[1].trader_position].bias = 1
  /\ heap[processorQueue[1].trader_position].size = Num(10)
  /\ heap[processorQueue[1].trader_position].limit_price = Num(100)
  /\ heap[processorQueue[1].trader_position].exit_price = Num(110)
  /\ heap[processorQueue[1].trader_position].funding = Num(0)
  /\ heap[processorQueue[1].trader_position].pnl = Num(100)
  /\ heap[processorQueue[2].trader_position].bias = 0

ConnPayloads ==
  {Payload(BTC, "LONG", OPEN_STATUS, Opened),
   Payload(BTC, "LONG", CLOSED_STATUS, Reduced)}

ConnFrames == {Subscribed, ChannelData(<<Fill(2)>>), Garbled}

NextConn ==
  \/ connect
  \/ \E c \in DOMAIN conns : OnOpen(c)
  \/ \E c \in DOMAIN conns : OnError(c)
  \/ \E c \in DOMAIN conns : OnClose(c)
  \/ \E c \in DOMAIN conns, frame \in ConnFrames :
       Quiescent /\ NoFrameWaits /\ OnMessage(c, frame)
  \/ \E c \in DOMAIN conns : OnMessageFailure(c)
  \/ \E c \in DOMAIN conns : OnSubscribed(c)
  \/ \E p \in ConnPayloads : Drained /\ SubscriptionStep(p.market, p)
  \/ \E c \in DOMAIN conns : OnChannelData(c, <<Fill(2)>>)
  \/ \E p \in ConnPayloads : Drained /\ PositionStep(p)
  \/ Drained /\ FrameDone
  \/ processorWorker
  \/ Drained /\ insertTrades
  \/ Drained /\ QuerySucceeds

SpecConn == Init /\ [][NextConn]_vars

(* C1: at most one live lane per instrument of the trader, over the live   *)
(* maps of all the trader's sockets that are open.                         *)
C1_OneLanePerInstrument ==
  \A c1 \in DOMAIN conns, c2 \in DOMAIN conns :
    (/\ conns[c1].state = "open"
     /\ conns[c2].state = "open"
     /\ DOMAIN conns[c1].TRADER_POSITIONS \cap DOMAIN conns[c2].TRADER_POSITIONS
          # {})
      => c1 = c2

(***************************************************************************)
(* SpecPipeline: the way of a row from the ledger engine to the database,  *)
(* under every schedule.  The worker of processorQueue runs between any    *)
(* two steps of the worker of messageQueue: both are chains of promise     *)
(* jobs.  The cron tick, the outcome of a query and the arrival of a frame *)
(* are callbacks of the event loop, which runs one when no promise job is  *)
(* left: they find the worker of messageQueue between two frames.  The     *)
(* worker of processorQueue awaits nothing but promise jobs between taking *)
(* its task and pushing the row, so that no callback runs in between.     *)
(* The frames are a snapshot of BTC-USD, or an update with one position.   *)
(***************************************************************************)
PipePayloads ==
  {Payload(BTC, "LONG", OPEN_STATUS, Opened),
   Payload(BTC, "SHORT", OPEN_STATUS, Reduced),
   Payload(BTC, "LONG", CLOSED_STATUS, Reduced),
   Payload(BTC, "LONG", OPEN_STATUS, Unset)}

PipeFrames == {Subscribed, ChannelData(<<Fill(2)>>)}

NextPipeline ==
  \/ OnOpen(1)
  \/ \E frame \in PipeFrames : NoFrameWaits /\ OnMessage(1, frame)
  \/ OnSubscribed(1)
  \/ \E p \in PipePayloads : SubscriptionStep(p.market, p)
  \/ OnChannelData(1, <<Fill(2)>>)
  \/ \E p \in PipePayloads : cur.n = 0 /\ PositionStep(p)
  \/ FrameDone
  \/ processorWorker
  \/ insertTrades
  \/ insertTradesBusy
  \/ QuerySucceeds
  \/ QueryDeadlock
  \/ \E code \in ErrorCodes : QueryFails(code)

SpecPipeline == Init /\ [][NextPipeline]_vars

(* async.queue runs its worker as long as a task is waiting.               *)
SpecPipelineFair == SpecPipeline /\ WF_vars(processorWorker)

(* The fields of a lane that the worker converts can be converted: the     *)
(* amounts are numbers or null, the dates are dates.                       *)
FieldsConvert(tp) ==
  /\ \A v \in {tp.size, tp.sum_open, tp.limit_price, tp.exit_price, tp.funding,
              tp.realised_pnl, tp.pnl} : v.t \in {"num", "frac", "null"}
  /\ tp.start_date.t = "num"
  /\ tp.end_date.t \in {"num", "null"}

(* The worker of processorQueue has taken a task in this step.             *)
TaskTaken == Len(processorQueue') < Len(processorQueue)

C10_AtomicSwap ==
  [][/\ (~is_processing /\ is_processing') =>
          /\ to_process' = TO_PROCESS
          /\ TO_PROCESS' = <<>>
     /\ TO_PROCESS' # TO_PROCESS =>
          \/ /\ TO_PROCESS' = <<>>
             /\ to_process' = TO_PROCESS
             /\ ~is_processing
          \/ /\ Len(TO_PROCESS') = Len(TO_PROCESS) + 1
             /\ SubSeq(TO_PROCESS', 1, Len(TO_PROCESS)) = TO_PROCESS
             /\ to_process' = to_process
     /\ to_process' # to_process =>
          \/ to_process = <<>> /\ to_process' = TO_PROCESS /\ TO_PROCESS' = <<>>
          \/ to_process' = <<>> /\ is_processing /\ ~is_processing'
               /\ TO_PROCESS' = TO_PROCESS]_vars

(* While the batch of a flush is being written, a row has been appended to *)
(* the pending batch.                                                      *)
C10_Witness ==
  /\ is_processing
  /\ to_process # <<>>
  /\ TO_PROCESS # <<>>

(***************************************************************************)
(* The flush: one at a time, retried on deadlocks, lost when it fails.     *)
(***************************************************************************)
(* One row has been appended to the pending batch in this step.            *)
RowAppended ==
  /\ Len(TO_PROCESS') = Len(TO_PROCESS) + 1
  /\ SubSeq(TO_PROCESS', 1, Len(TO_PROCESS)) = TO_PROCESS

(* C11: a write is under way exactly while is_processing is set, and it is *)
(* the only one: as long as the flag stays set, the batch being written is *)
(* not replaced, its attempts are counted on and never started anew, and   *)
(* the pending batch is left as it is or gets a row appended; no tick      *)
(* takes it.                                                               *)
C11_OneFlush ==
  /\ [](/\ is_processing <=> attempt >= 1
        /\ ~is_processing => to_process = <<>>)
  /\ [][is_processing =>
          /\ TO_PROCESS' = TO_PROCESS \/ RowAppended
          /\ is_processing' =>
               /\ to_process' = to_process
               /\ attempt' \in {attempt, attempt + 1}]_vars

(* A flush waits to retry its write while rows are pending: the state in   *)
(* which a tick returns at once.                                           *)
C11_Witness ==
  /\ is_processing
  /\ attempt >= 2
  /\ to_process # <<>>
  /\ TO_PROCESS # <<>>

(* The flush ends in this step. *)
FlushEnds == is_processing /\ ~is_processing'

(* C12: sqlBatchQuery makes at most MAX_RETRIES attempts; it makes the     *)
(* next attempt only after an attempt was rejected with ER_LOCK_DEADLOCK,  *)
(* which it logs with the number of that attempt, and a rejected attempt   *)
(* leaves the table as it was; the table changes in no other step than the *)
(* one that ends the flush, and then by the rows of the batch, written     *)
(* once; a flush that ends without an error leaves the rows written.       *)
C12_Retry ==
  /\ [](attempt <= MAX_RETRIES)
  /\ [][/\ (is_processing /\ attempt' = attempt + 1) =>
             /\ dbLog' = DeadlockLine(attempt)
             /\ db' = db
             /\ to_process' = to_process
        /\ db' # db =>
             /\ FlushEnds
             /\ db' = processPositions(db, to_process)
             /\ dbLog' = dbLog
        /\ FlushEnds =>
             \/ db' = processPositions(db, to_process)
             \/ db' = db /\ dbLog'.line = "Database query error"]_vars

(* The first two attempts were rejected with a deadlock, the third has     *)
(* succeeded: the last line logged is the retry line of attempt 2, the     *)
(* flush is over, and the rows are in the table.                           *)
C12_Witness ==
  /\ ~is_processing
  /\ dbLog = DeadlockLine(2)
  /\ TO_PROCESS = <<>>
  /\ db # EmptyMap

(* C13: the step that ends a flush leaves the pending batch as it is, so   *)
(* that no row of the batch comes back, and clears the flag and the batch  *)
(* of the flush; when the step logs a query error the table is left as it  *)
(* was; the tick that comes next takes the pending batch, the rows         *)
(* appended since the swap, and starts with its first attempt.             *)
C13_FailedFlush ==
  [][/\ FlushEnds =>
          /\ TO_PROCESS' = TO_PROCESS
          /\ to_process' = <<>>
          /\ attempt' = 0
          /\ dbLog' # dbLog =>
               /\ dbLog'.line = "Database query error"
               /\ db' = db
     /\ (~is_processing /\ is_processing') =>
          /\ to_process' = TO_PROCESS
          /\ to_process' # <<>>
          /\ attempt' = 1]_vars

(* A flush has failed on a deadlock at its last attempt, nothing is in the *)
(* table, and rows appended since the swap wait for the next tick.         *)
C13_Witness ==
  /\ ~is_processing
  /\ dbLog = ErrorLine("ER_LOCK_DEADLOCK")
  /\ db = EmptyMap
  /\ TO_PROCESS # <<>>

(***************************************************************************)
(* SpecStore: the bulk statement of processPositions as a function of the  *)
(* table and the batch.  At the start a flush is about to make its first   *)
(* attempt; the table is empty or holds one row, the batch has one or two  *)
(* rows, all of them rows the worker of processorQueue makes of a lane of  *)
(* BTC-USD of the address, which one of StoreUsers tracks.                 *)
(***************************************************************************)
StoreUsers == {User, User + 1}

StoreRows ==
  {Row(createNewPosition(u, Payload(BTC, s, OPEN_STATUS, n), Address,
                         Num(1), Num(1), "update")) :
     u \in StoreUsers, s \in Sides, n \in {Opened, Reduced}}

StoreTables ==
  {EmptyMap} \cup {[id \in {r.trade_id} |-> Inserted(r)] : r \in StoreRows}

StoreBatches ==
  {<<r>> : r \in StoreRows} \cup {<<r1, r2>> : r1 \in StoreRows, r2 \in StoreRows}

InitStore ==
  /\ cachedPairs = {StripDashes(BTC)}
  /\ conns = [c \in {1} |-> [NewSocket EXCEPT !.state = "open", !.subscribes = 1]]
  /\ websocket = 1
  /\ timers = 0
  /\ connects = 1
  /\ shouldReconnect = TRUE
  /\ heartbeatSetAt = 0
  /\ reconnectDelay = 0
  /\ heartbeatTimer = resetHeartbeatTimer(1)
  /\ heap = EmptyMap
  /\ cur = Idle
  /\ frames = 0
  /\ caseLog = ""
  /\ processorQueue = <<>>
  /\ TO_PROCESS = <<>>
  /\ is_processing = TRUE
  /\ to_process \in StoreBatches
  /\ attempt = 1
  /\ db \in StoreTables
  /\ dbLog = NoDbLog
  /\ socketSubscriptions = EmptyMap
  /\ sessions = EmptyMap
  /\ traders = <<>>
  /\ fetch = NoFetch
  /\ height = FirstBlock
  /\ messages = <<>>
  /\ channel = FALSE
  /\ running = TRUE

NextStore ==
  \/ QuerySucceeds
  \/ QueryDeadlock
  \/ \E code \in ErrorCodes : QueryFails(code)

SpecStore == InitStore /\ [][NextStore]_vars

(* The row of the batch that is the last with its trade_id. *)
LastOfItsId(batch, i) ==
  \A j \in (i + 1)..Len(batch) : batch[j].trade_id # batch[i].trade_id

(* C14: the statement that has written a batch leaves, under the trade_id  *)
(* of each row, that row's values in every column, whether the table held  *)
(* the trade_id or not; and writing the batch once more changes nothing.   *)
C14_UpsertAllFields ==
  [][(FlushEnds /\ db' # db) =>
       /\ \A i \in 1..Len(to_process) :
            LastOfItsId(to_process, i) =>
              db'[to_process[i].trade_id] = Inserted(to_process[i])
       /\ processPositions(db', to_process) = db']_vars

(* C15: when nothing is on its way to the table, the table holds, under    *)
(* the trade_id of every lane of the live maps whose fields convert, the   *)
(* lane's values in every column: the amounts in units, the dates as SQL   *)
(* dates.                                                                  *)
C15_RoundTrip ==
  (Quiescent /\ NoFrameWaits /\ cur = Idle) =>
    \A c \in DOMAIN conns :
      \A k \in DOMAIN conns[c].TRADER_POSITIONS :
        LET tp == heap[conns[c].TRADER_POSITIONS[k]]
        IN  FieldsConvert(tp) =>
              /\ tp.trade_id \in DOMAIN db
              /\ db[tp.trade_id] =
                   [Inserted(Row(tp)) EXCEPT
                      !.sum_close = convertToDecimal(tp.sum_close, AMOUNT_DECIMALS)]

(***************************************************************************)
(* SpecSession: the session of the trader, from its first connect() to its *)
(* draining.  The socket opens, is pinged, fails, is closed by the server, *)
(* by the heartbeat timeout or by closeConnection(); a frame the worker of *)
(* messageQueue throws on arrives; the sessions of the other traders reset *)
(* the heartbeat timer they share with this one.                           *)
(***************************************************************************)
NextSession ==
  \/ connect
  \/ \E c \in DOMAIN conns : OnOpen(c)
  \/ \E c \in DOMAIN conns : OnPing(c)
  \/ PeerPing
  \/ HeartbeatTimeout
  \/ \E c \in DOMAIN conns : OnError(c)
  \/ \E c \in DOMAIN conns : OnClose(c)
  \/ closeConnection
  \/ \E c \in DOMAIN conns : NoFrameWaits /\ OnMessage(c, Garbled)
  \/ \E c \in DOMAIN conns : OnMessageFailure(c)

SpecSession == Init /\ [][NextSession]_vars

(* A timer set by setTimeout fires. *)
SpecSessionFair == SpecSession /\ WF_vars(connect)

(* The sockets of the session that are connecting or open. *)
LiveSockets == {c \in DOMAIN conns : conns[c].state \in {"connecting", "open"}}

(* C16: every open socket has sent one subscribe request and is the socket *)
(* the pending heartbeat timeout closes, and no socket has sent more than  *)
(* one subscribe request.                                                  *)
C16_WatchdogArmed ==
  \A c \in DOMAIN conns :
    /\ conns[c].subscribes <= 1
    /\ conns[c].state = "open" =>
         /\ conns[c].subscribes = 1
         /\ heartbeatTimer = c

(* C17: once shouldReconnect is cleared, connect() is not called.          *)
C17_NoConnectAfterDrain ==
  [][~shouldReconnect => connects' = connects]_vars

(* C18: the sockets of the session that are connecting or open, and the    *)
(* timers set for connect(), are at most one in all.                       *)
C18_OneSocketOrAttempt ==
  Cardinality(LiveSockets) + timers <= 1

(* C20: the close of a socket while shouldReconnect holds sets a timer     *)
(* for connect(); no step but connect() takes a timer away; and as long as *)
(* a timer is set, connect() is called, however many calls came before     *)
(* (up to MaxConnects here).                                               *)
C20_Reconnects ==
  /\ [][/\ \A c \in DOMAIN conns :
             (c \notin DOMAIN conns' /\ shouldReconnect) => timers' = timers + 1
        /\ timers' < timers =>
             /\ timers' = timers - 1
             /\ connects' = connects + 1]_vars
  /\ \A n \in 1..(MaxConnects - 1) :
       (timers > 0 /\ connects = n) ~> (connects > n)

(* The socket has been closed and opened anew MaxConnects - 1 times in a   *)
(* row, and the last socket is open.                                       *)
C20_Witness ==
  /\ shouldReconnect
  /\ connects = MaxConnects
  /\ timers = 0
  /\ \E c \in DOMAIN conns : conns[c].state = "open"

(***************************************************************************)
(* SpecFrames: the messageQueue of one socket.  Frames arrive while        *)
(* earlier frames wait: the worker starts in a later turn of the event     *)
(* loop than the push.  The rows of a frame are written before the worker  *)
(* takes the next frame.                                                   *)
(***************************************************************************)
FramesOfBurst == {Subscribed, ChannelData(<<Fill(2)>>), ChannelDataNoFills, Garbled}

NextFrames ==
  \/ OnOpen(1)
  \/ \E frame \in FramesOfBurst : OnMessage(1, frame)
  \/ Quiescent /\ OnSubscribed(1)
  \/ \E p \in PipePayloads : Drained /\ SubscriptionStep(p.market, p)
  \/ Quiescent /\ OnChannelData(1, <<Fill(2)>>)
  \/ \E p \in PipePayloads : Drained /\ PositionStep(p)
  \/ Drained /\ FrameDone
  \/ Quiescent /\ OnChannelDataDropped(1)
  \/ Quiescent /\ OnMessageFailure(1)
  \/ processorWorker
  \/ Drained /\ insertTrades
  \/ Drained /\ QuerySucceeds

SpecFrames == Init /\ [][NextFrames]_vars

(* C19: a messageQueue changes by a frame pushed at its end or by its      *)
(* first frame taken; the worker starts on a frame only when it is between *)
(* two frames, and the frame is the first of its queue; while it handles a *)
(* frame it takes no other; and the live map of a socket and the lanes     *)
(* change only in the steps of the frame in hand, which is that socket's.  *)
C19_InOrder ==
  [][/\ \A c \in DOMAIN conns \cap DOMAIN conns' :
          LET q == conns[c].messageQueue
              r == conns'[c].messageQueue
          IN  /\ r # q =>
                   \/ /\ Len(r) = Len(q) + 1
                      /\ SubSeq(r, 1, Len(q)) = q
                   \/ /\ q # <<>>
                      /\ r = Tail(q)
                      /\ cur = Idle
              /\ conns'[c].TRADER_POSITIONS # conns[c].TRADER_POSITIONS =>
                   /\ cur # Idle
                   /\ cur.conn = c
     /\ (cur = Idle /\ cur' # Idle) =>
          LET q == conns[cur'.conn].messageQueue
          IN  /\ q # <<>>
              /\ Head(q).type = cur'.kind
              /\ Head(q).fills = cur'.fills
              /\ conns'[cur'.conn].messageQueue = Tail(q)
     /\ cur # Idle =>
          /\ cur' # Idle =>
               /\ cur'.kind = cur.kind
               /\ cur'.conn = cur.conn
               /\ cur'.fills = cur.fills
          /\ \A c \in DOMAIN conns \cap DOMAIN conns' :
               conns'[c].messageQueue = conns[c].messageQueue
     /\ heap' # heap => cur # Idle \/ Len(processorQueue') < Len(processorQueue)]_vars

(* The worker is in the loop of an incremental frame, has handled its      *)
(* position, and a snapshot that came after it waits in the queue.         *)
C19_Witness ==
  /\ cur.kind = DATA_TYPE
  /\ cur.n = 1
  /\ conns[cur.conn].messageQueue = <<Subscribed>>
  /\ processorQueue # <<>>

(***************************************************************************)
(* Case 2 of updatePosition: the lane is updated in place.                 *)
(***************************************************************************)
(* The report has status OPEN and the direction of the lane its instrument *)
(* has in the live map.                                                    *)
SameDirection(p) ==
  /\ p.market # NoMarket
  /\ StripDashes(p.market) \in cachedPairs
  /\ p.status = OPEN_STATUS
  /\ Has(LiveMap, StripDashes(p.market))
  /\ heap[LiveMap[StripDashes(p.market)]].bias = Bias(p.side)

(* C24: an update with status OPEN for an instrument whose lane has the     *)
(* same direction pushes exactly one row, of that lane and tagged          *)
(* `update`; the lane stays in the live map, no lane is made, and the      *)
(* lane's trade identifier, direction, trader, user, instrument and        *)
(* opening timestamp are as they were, as is every other lane.             *)
C24_UpdateInPlace ==
  [][UpdatePass => \A p \in Payloads :
       (SameDirection(p) /\ PositionStep(p))
         => LET symbol == StripDashes(p.market)
                old == LiveMap[symbol]
            IN  /\ processorQueue' =
                     Append(processorQueue, [trader_position |-> old])
                /\ LiveMapAfter = LiveMap
                /\ DOMAIN heap' = DOMAIN heap
                /\ \A id \in DOMAIN heap \ {old} : heap'[id] = heap[id]
                /\ heap'[old].type = "update"
                /\ heap'[old].trade_id = heap[old].trade_id
                /\ heap'[old].bias = heap[old].bias
                /\ heap'[old].trader_address = heap[old].trader_address
                /\ heap'[old].user = heap[old].user
                /\ heap'[old].token = heap[old].token
                /\ heap'[old].start_date = heap[old].start_date
                /\ heap'[old].end_date = heap[old].end_date]_vars

(* A lane that an update had opened at the time of its fill has been       *)
(* updated in place by a later update, and its row waits for the worker.   *)
C24_Witness ==
  /\ cur.kind = DATA_TYPE
  /\ cur.n = 1
  /\ caseLog = "CASE 2"
  /\ Len(processorQueue) = 1
  /\ heap[processorQueue[1].trader_position].type = "update"
  /\ heap[processorQueue[1].trader_position].start_date = Num(2)
  /\ heap[processorQueue[1].trader_position].sum_open = Num(15)
  /\ conns[cur.conn].TRADER_POSITIONS[StripDashes(BTC)]
       = processorQueue[1].trader_position

(***************************************************************************)
(* updatePosition and the lists of the frame.                              *)
(***************************************************************************)
(* C25: an incremental update whose position list or fill list is missing, *)
(* or whose fill list is empty, changes no lane and the live map not at    *)
(* all, and pushes no row.                                                 *)
C25_DroppedWhole ==
  [][/\ OnChannelDataDropped(1) =>
          /\ conns'[1].TRADER_POSITIONS = conns[1].TRADER_POSITIONS
          /\ UNCHANGED <<heap, processorQueue>>
     /\ (UpdatePass /\ cur.fills = <<>>) =>
          /\ LiveMapAfter = LiveMap
          /\ UNCHANGED <<heap, processorQueue>>]_vars

(***************************************************************************)
(* The catch around one position of updatePosition.                        *)
(***************************************************************************)
(* A position object that names no market or whose numbers are not         *)
(* numeric strings.                                                        *)
Malformed(p) == p.market = NoMarket \/ ~NumericReport(p)

(* A report for an instrument with a lane whose status is neither OPEN nor *)
(* CLOSED.                                                                 *)
Unrecognised(p) ==
  /\ p.market # NoMarket
  /\ Has(LiveMap, StripDashes(p.market))
  /\ p.status \notin {OPEN_STATUS, CLOSED_STATUS}

(* C26: a position of an incremental update that is malformed or matches no *)
(* case pushes no row, makes, changes and removes no lane, and the loop    *)
(* goes on to the next position.                                           *)
C26_FailsAlone ==
  [][UpdatePass => \A p \in Payloads :
       ((Malformed(p) \/ Unrecognised(p)) /\ PositionStep(p))
         => /\ UNCHANGED <<heap, processorQueue>>
            /\ LiveMapAfter = LiveMap
            /\ cur'.kind = DATA_TYPE]_vars

(***************************************************************************)
(* The tasks of processorQueue and the lanes they refer to.                *)
(***************************************************************************)
(* The lanes that a task waiting in the queue refers to.                   *)
Awaited(pq) == {pq[i].trader_position : i \in 1..Len(pq)}

(* C27: a row handed to the pipeline is a copy of its lane: as long as the  *)
(* task of a row waits for the processor worker, no step changes what the  *)
(* worker will read for it.                                                *)
C27_RowIsCopy ==
  [][\A id \in Awaited(processorQueue) \cap Awaited(processorQueue') :
       id \in DOMAIN heap' /\ heap'[id] = heap[id]]_vars

(***************************************************************************)
(* SpecLanes: the lanes of BTC-USD over the blocks of the chain.  The      *)
(* session has one lane, which an update opened with a fill of the block   *)
(* after the first; the feed then reports fills of that block and of later *)
(* ones, and each flush writes to the table.                               *)
(***************************************************************************)
MaxHeight == 3

Heights == (FirstBlock + 1)..MaxHeight

LaneFills == {<<Fill(h)>> : h \in Heights}

LanePayloads ==
  {Payload(BTC, s, st, n) :
     s \in Sides, st \in {OPEN_STATUS, CLOSED_STATUS}, n \in {Opened, Reduced}}

InitLanes ==
  /\ cachedPairs = {StripDashes(BTC)}
  /\ \E s \in Sides :
       heap = [id \in {1} |->
                 createNewPosition(User, Payload(BTC, s, OPEN_STATUS, Opened),
                                   Address, Num(FirstBlock + 1),
                                   Num(FirstBlock + 1), "open")]
  /\ conns = [c \in {1} |->
                [NewSocket EXCEPT
                   !.state = "open", !.subscribes = 1,
                   !.TRADER_POSITIONS = [k \in {StripDashes(BTC)} |-> 1]]]
  /\ websocket = 1
  /\ timers = 0
  /\ connects = 1
  /\ shouldReconnect = TRUE
  /\ heartbeatSetAt = 0
  /\ reconnectDelay = 0
  /\ heartbeatTimer = resetHeartbeatTimer(1)
  /\ cur = Idle
  /\ frames = 0
  /\ caseLog = "CASE 1"
  /\ processorQueue = <<>>
  /\ TO_PROCESS = <<>>
  /\ is_processing = FALSE
  /\ to_process = <<>>
  /\ attempt = 0
  /\ db = EmptyMap
  /\ dbLog = NoDbLog
  /\ socketSubscriptions = EmptyMap
  /\ sessions = EmptyMap
  /\ traders = <<>>
  /\ fetch = NoFetch
  /\ height = FirstBlock + 1
  /\ messages = <<>>
  /\ channel = FALSE
  /\ running = TRUE

NextLanes ==
  \/ \E fills \in LaneFills :
       Quiescent /\ NoFrameWaits /\ OnMessage(1, ChannelData(fills))
  \/ \E fills \in LaneFills : OnChannelData(1, fills)
  \/ \E p \in LanePayloads : Drained /\ PositionStep(p)
  \/ Drained /\ FrameDone
  \/ processorWorker
  \/ Drained /\ insertTrades
  \/ QuerySucceeds

SpecLanes == InitLanes /\ [][NextLanes]_vars

(* The trade identifiers of the lanes in the live maps, and those of the   *)
(* lanes that were closed: their rows are in the table, in a batch or on   *)
(* the way to one.                                                         *)
LiveLanes ==
  UNION {{conns[c].TRADER_POSITIONS[k] : k \in DOMAIN conns[c].TRADER_POSITIONS} :
           c \in DOMAIN conns}

LiveIds == {heap[id].trade_id : id \in LiveLanes}

Ended(rows) == {rows[i].trade_id : i \in {j \in DOMAIN rows : rows[j].end_date # Null}}

ClosedIds ==
  Ended(db) \cup Ended(TO_PROCESS) \cup Ended(to_process)
    \cup {heap[id].trade_id :
            id \in {x \in Awaited(processorQueue) : heap[x].end_date # Null}}

(* C28: no lane in a live map has the trade identifier of a lane of its    *)
(* trader and instrument that was closed.                                  *)
C28_DistinctIds == LiveIds \cap ClosedIds = {}

(***************************************************************************)
(* The delay of the timers for connect().                                  *)
(***************************************************************************)
(* Socket c was made by the connect() of a timer and fails before it has   *)
(* opened: a reconnect attempt that failed, which sets the next timer.     *)
AttemptFails(c) ==
  /\ c > 1
  /\ conns[c].state = "connecting"
  /\ OnError(c) \/ OnClose(c)
  /\ timers' = timers + 1

(* C23: reconnection backs off: the timer set when a reconnect attempt      *)
(* fails has a longer delay than the timer set before it.                  *)
C23_Backoff ==
  [][\A c \in DOMAIN conns :
       AttemptFails(c) => reconnectDelay' > reconnectDelay]_vars

(***************************************************************************)
(* The heartbeat timeout and the frames of the feed.                       *)
(***************************************************************************)
(* The heartbeat timeout fires and closes a socket of the session.         *)
WatchdogCloses ==
  /\ HeartbeatTimeout
  /\ heartbeatTimer \in DOMAIN conns
  /\ conns[heartbeatTimer].state = "open"

(* C29: every frame resets the heartbeat timeout: when the timeout fires    *)
(* and closes a socket of the session, no frame has been received since    *)
(* the timeout was set.                                                    *)
C29_FramesFeedWatchdog == [][WatchdogCloses => heartbeatSetAt = frames]_vars

(***************************************************************************)
(* SpecAccount: a session whose feed sends frames that name no account,    *)
(* and frames the worker throws on, which make it connect again.           *)
(***************************************************************************)
AccountFrames == {Garbled, SubscribedNoId, NullAccount}

NextAccount ==
  \/ connect
  \/ \E c \in DOMAIN conns : OnOpen(c)
  \/ \E c \in DOMAIN conns : OnClose(c)
  \/ \E c \in DOMAIN conns, frame \in AccountFrames :
       conns[c].messageQueue = <<>> /\ OnMessage(c, frame)
  \/ \E c \in DOMAIN conns : OnMessageFailure(c)
  \/ \E c \in DOMAIN conns : OnSubscribedNoId(c)
  \/ \E c \in DOMAIN conns : OnUndefinedAccount(c)
  \/ \E p \in PipePayloads : SubscriptionStep(p.market, p)
  \/ FrameDone
  \/ processorWorker

SpecAccount == Init /\ [][NextAccount]_vars

(* C30: a frame that references an undefined account, by its field         *)
(* `account` or by a missing id, makes the socket it came on close, which  *)
(* its close handler answers with a reconnect, and is not applied: no lane *)
(* is made or changed and no row is pushed.                                *)
C30_UndefinedAccount ==
  [][/\ \A c \in DOMAIN conns :
          (OnUndefinedAccount(c) \/ OnSubscribedNoId(c))
            => /\ conns'[c].state = "closing"
               /\ conns'[c].TRADER_POSITIONS = conns[c].TRADER_POSITIONS
               /\ UNCHANGED <<heap, processorQueue>>
     /\ (cur.account = NoAccount /\ SnapshotPass)
          => /\ LiveMapAfter = LiveMap
             /\ UNCHANGED <<heap, processorQueue>>]_vars

(***************************************************************************)
(* index.ts: connectToTraders and the sessions it opens and closes.        *)
(* A session is followed by its flag, the state of the socket its last     *)
(* connect() made and whether a timer for connect() is pending; the        *)
(* sockets and the timers of one session are followed one by one in        *)
(* SpecSession.                                                            *)
(***************************************************************************)
MaxSessions == 2

(* The rows getTraders() can return: users_wallets has no unique key on     *)
(* the address, so two users can follow one address.                       *)
Trader(user, address) == [user |-> user, address |-> address]

Wallets == {Trader(1, "0xA"), Trader(2, "0xB"), Trader(2, "0xA")}

Rosters ==
  {<<>>} \cup {<<w>> : w \in Wallets}
    \cup {<<v, w>> : <<v, w>> \in {vw \in Wallets \X Wallets : vw[1] # vw[2]}}

(* new Set(traders.map((p) => p.address)) *)
Addresses(rows) == {rows[i].address : i \in 1..Len(rows)}

(* initWebSocketTraderMemory(address, user): the flag is set and connect()  *)
(* has made a socket.                                                      *)
Session(address, user) ==
  [address |-> address, user |-> user, shouldReconnect |-> TRUE,
   websocket |-> "connecting", pending |-> FALSE]

(* closeConnection() of a session. *)
closeConnectionOf(session) ==
  [session EXCEPT
     !.shouldReconnect = FALSE,
     !.websocket = IF @ \in {"connecting", "open"} THEN "closing" ELSE @]

(* A session that nothing will wake: its flag is cleared, its socket is     *)
(* closed and no timer is pending.  Such sessions are dropped.             *)
Finished(session) ==
  /\ ~session.shouldReconnect
  /\ session.websocket = "closed"
  /\ ~session.pending

Kept(ss) == [s \in {x \in DOMAIN ss : ~Finished(ss[x])} |-> ss[s]]

(* A subscription test that takes every row for new.                        *)
IsNewAlways(subs, trader) == TRUE

(* !socketSubscriptions.has(trader.address) *)
IsNew(subs, trader) == ~Has(subs, trader.address)

(* socketSubscriptions.forEach: the sessions of the addresses that are not  *)
(* in the roster are closed, and their entries are deleted.                *)
Unsubscribe(ss, subs, newTraders) ==
  [sessions |->
     [s \in DOMAIN ss |->
        IF \E a \in DOMAIN subs \ newTraders : subs[a] = s
        THEN closeConnectionOf(ss[s]) ELSE ss[s]],
   map |-> [a \in DOMAIN subs \cap newTraders |-> subs[a]]]

(* traders.forEach: every row is tested against the map as it was when the  *)
(* loop began, `had`, because the entries are set only after the loop; a   *)
(* row that passes gets a session, and the entry of its address is set.    *)
RECURSIVE Subscribe(_, _, _, _)
Subscribe(rows, had, ss, subs) ==
  IF rows = <<>> THEN [sessions |-> ss, map |-> subs]
  ELSE LET trader == Head(rows)
           s == NewId(ss)
       IN  IF IsNew(had, trader)
           THEN Subscribe(Tail(rows), had,
                          Set(ss, s, Session(trader.address, trader.user)),
                          Set(subs, trader.address, s))
           ELSE Subscribe(Tail(rows), had, ss, subs)

(* The interval or the start-up calls connectToTraders, whose query is      *)
(* sent; `result` is what it will return.                                  *)
getTraders(result) ==
  /\ fetch = NoFetch
  /\ fetch' = [state |-> "pending", rows |-> result]
  /\ UNCHANGED <<socketSubscriptions, sessions, traders>>
  /\ UNCHANGED <<cachedPairs, heap, cur, frames, caseLog, processorQueue,
                 height>>
  /\ UNCHANGED notifyVars
  /\ UNCHANGED connVars
  /\ UNCHANGED flushVars

(* The query has returned: connectToTraders runs to its end.                *)
connectToTraders ==
  /\ fetch # NoFetch
  /\ LET newTraders == Addresses(fetch.rows)
         closed == Unsubscribe(sessions, socketSubscriptions, newTraders)
         opened == Subscribe(fetch.rows, socketSubscriptions, closed.sessions,
                             closed.map)
     IN  /\ Cardinality(DOMAIN opened.sessions) <= MaxSessions
         /\ sessions' = Kept(opened.sessions)
         /\ socketSubscriptions' = opened.map
  /\ traders' = fetch.rows
  /\ fetch' = NoFetch
  /\ UNCHANGED <<cachedPairs, heap, cur, frames, caseLog, processorQueue,
                 height>>
  /\ UNCHANGED notifyVars
  /\ UNCHANGED connVars
  /\ UNCHANGED flushVars

(* The socket of session s opens. *)
SessionOpens(s) ==
  /\ sessions[s].websocket = "connecting"
  /\ sessions' = [sessions EXCEPT ![s].websocket = "open"]
  /\ UNCHANGED <<socketSubscriptions, traders, fetch>>
  /\ UNCHANGED <<cachedPairs, heap, cur, frames, caseLog, processorQueue,
                 height>>
  /\ UNCHANGED notifyVars
  /\ UNCHANGED connVars
  /\ UNCHANGED flushVars

(* The socket of session s has an error: the handler sets a timer for       *)
(* connect(), whatever the flag says.                                      *)
SessionFails(s) ==
  /\ sessions[s].websocket \in {"connecting", "open"}
  /\ sessions' = [sessions EXCEPT ![s].websocket = "closing",
                                  ![s].pending = TRUE]
  /\ UNCHANGED <<socketSubscriptions, traders, fetch>>
  /\ UNCHANGED <<cachedPairs, heap, cur, frames, caseLog, processorQueue,
                 height>>
  /\ UNCHANGED notifyVars
  /\ UNCHANGED connVars
  /\ UNCHANGED flushVars

(* The socket of session s is closed: the handler sets a timer for          *)
(* connect() if the flag is set.                                           *)
SessionCloses(s) ==
  /\ sessions[s].websocket # "closed"
  /\ sessions' =
       Kept([sessions EXCEPT
               ![s].websocket = "closed",
               ![s].pending = @ \/ sessions[s].shouldReconnect])
  /\ UNCHANGED <<socketSubscriptions, traders, fetch>>
  /\ UNCHANGED <<cachedPairs, heap, cur, frames, caseLog, processorQueue,
                 height>>
  /\ UNCHANGED notifyVars
  /\ UNCHANGED connVars
  /\ UNCHANGED flushVars

(* The timer of session s fires: connect() makes a socket.                  *)
SessionConnects(s) ==
  /\ sessions[s].pending
  /\ sessions' = [sessions EXCEPT ![s].websocket = "connecting",
                                  ![s].pending = FALSE]
  /\ UNCHANGED <<socketSubscriptions, traders, fetch>>
  /\ UNCHANGED <<cachedPairs, heap, cur, frames, caseLog, processorQueue,
                 height>>
  /\ UNCHANGED notifyVars
  /\ UNCHANGED connVars
  /\ UNCHANGED flushVars

NextRoster ==
  \/ \E result \in Rosters : getTraders(result)
  \/ connectToTraders
  \/ \E s \in DOMAIN sessions : SessionOpens(s)
  \/ \E s \in DOMAIN sessions : SessionFails(s)
  \/ \E s \in DOMAIN sessions : SessionCloses(s)
  \/ \E s \in DOMAIN sessions : SessionConnects(s)

SpecRoster == Init /\ [][NextRoster]_vars

(* The addresses of the roster the last run worked on, and the sessions    *)
(* that have or will have a socket: the flag is set, the socket is         *)
(* connecting or open, or a timer for connect() is pending.                *)
Desired == Addresses(traders)

Live(s) ==
  \/ sessions[s].shouldReconnect
  \/ sessions[s].websocket \in {"connecting", "open"}
  \/ sessions[s].pending

LiveOf(address) ==
  {s \in DOMAIN sessions : Live(s) /\ sessions[s].address = address}

(* C21: once a run of connectToTraders is over, the map holds the           *)
(* addresses of its roster, each of them has exactly one live session, and *)
(* no other address has one.                                               *)
C21_LiveIsRoster ==
  /\ DOMAIN socketSubscriptions = Desired
  /\ \A address \in {"0xA", "0xB"} :
       Cardinality(LiveOf(address)) = (IF address \in Desired THEN 1 ELSE 0)

(* C22: reconciling is idempotent: a run of connectToTraders whose query   *)
(* returns the roster the last run worked on opens no session, closes none *)
(* and leaves the map as it is.                                            *)
C22_Idempotent ==
  [][(connectToTraders /\ fetch.rows = traders)
       => UNCHANGED <<socketSubscriptions, sessions>>]_vars

(* A run is about to end whose query returned the roster of the run before *)
(* it, two addresses with a session each.                                  *)
C22_Witness ==
  /\ fetch # NoFetch
  /\ fetch.rows = traders
  /\ Len(traders) = 2
  /\ DOMAIN socketSubscriptions = {"0xA", "0xB"}
  /\ Cardinality(DOMAIN sessions) = 2

(***************************************************************************)
(* The watchdogs of two traders' sessions.                                 *)
(***************************************************************************)
(* The pending heartbeat timeout closes a socket of this trader's session. *)
OwnWatchdog == heartbeatTimer \in DOMAIN conns

(* The pending heartbeat timeout closes the socket of the other trader's   *)
(* session.                                                                *)
PeerWatchdog == heartbeatTimer = PeerSocket

(* C36: the open handler and the ping handler of one trader's session, and *)
(* the draining of that session, leave a heartbeat timeout that is pending *)
(* for the other trader's session as it is, and a ping of the other        *)
(* trader's session leaves the timeout pending for this one as it is.      *)
C36_IndependentWatchdogs ==
  [][/\ (PeerPing /\ OwnWatchdog) => heartbeatTimer' = heartbeatTimer
     /\ (/\ PeerWatchdog
         /\ \/ closeConnection
            \/ \E c \in DOMAIN conns : OnPing(c) \/ OnOpen(c))
          => heartbeatTimer' = heartbeatTimer]_vars

(***************************************************************************)
(* Errors of the bulk write other than deadlocks; the empty batch.         *)
(***************************************************************************)
(* An attempt of the write in progress is rejected with `code` in this     *)
(* step.                                                                   *)
RejectedWith(code) == is_processing /\ QueryFails(code)

(* C34: the step in which an attempt is rejected with an error that is no  *)
(* deadlock ends the flush: no attempt follows it, the callback of the     *)
(* tick gets the error and clears the flag, the table is as it was; an     *)
(* attempt is counted only after a deadlock; and as long as no flush is in *)
(* progress and nothing is pending, no step starts an attempt or changes   *)
(* the table.                                                              *)
C34_NoRetry ==
  [][/\ \A code \in ErrorCodes \ {"ER_LOCK_DEADLOCK"} :
          RejectedWith(code) =>
            /\ FlushEnds
            /\ attempt' = 0
            /\ to_process' = <<>>
            /\ db' = db
            /\ dbLog' = ErrorLine(code)
     /\ (is_processing /\ attempt' > attempt) =>
          dbLog' = DeadlockLine(attempt)
     /\ (~is_processing /\ TO_PROCESS = <<>>) =>
          /\ ~is_processing'
          /\ attempt' = 0
          /\ UNCHANGED <<db, dbLog>>]_vars

(* The first attempt of a flush was rejected because the database refused  *)
(* the connection: the flush is over and nothing is in the table; and the  *)
(* pending batch is empty, so that the next tick writes nothing.           *)
C34_Witness ==
  /\ ~is_processing
  /\ dbLog = ErrorLine("ECONNREFUSED")
  /\ attempt = 0
  /\ db = EmptyMap
  /\ TO_PROCESS = <<>>
  /\ processorQueue = <<>>

(***************************************************************************)
(* The order of the rows on their way to the table.                        *)
(***************************************************************************)
(* The trade_ids of the rows on their way, oldest first: the batch being   *)
(* written, the pending batch, the tasks that wait in processorQueue.      *)
PipelineIds ==
  [i \in 1..Len(to_process) |-> to_process[i].trade_id]
    \o [i \in 1..Len(TO_PROCESS) |-> TO_PROCESS[i].trade_id]
    \o [i \in 1..Len(processorQueue) |->
          heap[processorQueue[i].trader_position].trade_id]

(* seq without its element at index i. *)
Without(seq, i) == SubSeq(seq, 1, i - 1) \o SubSeq(seq, i + 1, Len(seq))

(* seq is the start of longer. *)
IsPrefix(seq, longer) ==
  Len(seq) <= Len(longer) /\ SubSeq(longer, 1, Len(seq)) = seq

(* C31: the rows on their way keep the order in which the ledger engine    *)
(* pushed them: a step takes rows away only at the front (the batch of the *)
(* flush that ends) or where the worker stands (a row it cannot convert),  *)
(* and adds rows only at the end; and a flush that has written its batch  *)
(* leaves in the table, for each trade_id of the batch, the values of the  *)
(* row that comes last in it.                                              *)
C31_OrderKept ==
  [][/\ LET old == PipelineIds
            kept == IF FlushEnds
                    THEN SubSeq(old, Len(to_process) + 1, Len(old)) ELSE old
            at == Len(TO_PROCESS) + 1
                    + (IF FlushEnds THEN 0 ELSE Len(to_process))
            left == IF TaskTaken /\ Len(TO_PROCESS') = Len(TO_PROCESS)
                    THEN Without(kept, at) ELSE kept
        IN  IsPrefix(left, PipelineIds')
     /\ (FlushEnds /\ db' # db) =>
          \A i \in 1..Len(to_process) :
            LastOfItsId(to_process, i) =>
              LET stored == db'[to_process[i].trade_id]
              IN  /\ stored.size = to_process[i].size
                  /\ stored.pnl = to_process[i].pnl
                  /\ stored.realised_pnl = to_process[i].realised_pnl
                  /\ stored.end_date = to_process[i].end_date]_vars

(* The two rows of a flip went through the pipeline in one batch, the      *)
(* `close` row of the old lane before the `open` row of the new one, and   *)
(* both are in the table.                                                  *)
C31_Witness ==
  /\ ~is_processing
  /\ Quiescent
  /\ Cardinality(DOMAIN db) = 2
  /\ \E id \in DOMAIN db : db[id].end_date # Null
  /\ \E id \in DOMAIN db : db[id].end_date = Null

(***************************************************************************)
(* SpecWorker: a row the worker of processorQueue cannot convert, and the  *)
(* rows behind it.  The feed reports BTC-USD once without sumOpen: the     *)
(* lane made of that report has no sum_open, which no later transition of  *)
(* the lane sets, so that convertToDecimal throws on each of its rows.     *)
(* The processor worker runs under every schedule, as in SpecPipeline; the *)
(* flushes succeed.                                                        *)
(***************************************************************************)
NoSumOpen == [Reduced EXCEPT !.sumOpen = Undef]

WorkerPayloads ==
  {Payload(BTC, "LONG", OPEN_STATUS, NoSumOpen),
   Payload(BTC, "LONG", OPEN_STATUS, Opened),
   Payload(BTC, "SHORT", OPEN_STATUS, Reduced)}

NextWorker ==
  \/ OnOpen(1)
  \/ \E frame \in PipeFrames : NoFrameWaits /\ OnMessage(1, frame)
  \/ OnSubscribed(1)
  \/ \E p \in WorkerPayloads : SubscriptionStep(p.market, p)
  \/ OnChannelData(1, <<Fill(2)>>)
  \/ \E p \in WorkerPayloads : cur.n = 0 /\ PositionStep(p)
  \/ FrameDone
  \/ processorWorker
  \/ insertTrades
  \/ QuerySucceeds

SpecWorker == Init /\ [][NextWorker]_vars

(* async.queue runs its worker as long as a task is waiting.               *)
SpecWorkerFair == SpecWorker /\ WF_vars(processorWorker)

(* C38: the step that takes a task whose lane has a field that cannot be   *)
(* converted leaves the pending batch as it is, takes that task alone from *)
(* the queue and leaves the lanes of the tasks behind it as they are; the  *)
(* step that takes a task whose fields convert appends its row at the end  *)
(* of the pending batch, whatever was taken before; and every task that    *)
(* waits is taken.                                                         *)
C38_FailedRowSkipped ==
  /\ [][TaskTaken =>
          LET tp == heap[Head(processorQueue).trader_position]
          IN  /\ processorQueue' = Tail(processorQueue)
              /\ \A i \in 1..Len(processorQueue') :
                   heap'[processorQueue'[i].trader_position] =
                     heap[processorQueue[i + 1].trader_position]
              /\ IF RowThrows(tp) THEN TO_PROCESS' = TO_PROCESS
                 ELSE TO_PROCESS' = Append(TO_PROCESS, Row(tp))]_vars
  /\ \A n \in 1..2 : (Len(processorQueue) = n) ~> (Len(processorQueue) < n)

(* A flip has closed a lane whose amounts are undefined and opened a lane  *)
(* whose amounts are numbers: the row of the closed lane was skipped, the  *)
(* `open` row that was pushed after it is alone in the pending batch, and  *)
(* nothing has been flushed.                                               *)
C38_Witness ==
  /\ caseLog = "CASE 3"
  /\ processorQueue = <<>>
  /\ Len(TO_PROCESS) = 1
  /\ TO_PROCESS[1].type = "open"
  /\ ~is_processing
  /\ db = EmptyMap
  /\ dbLog = NoDbLog

(***************************************************************************)
(* A report with status CLOSED.                                            *)
(***************************************************************************)
(* C35: a pass of the loop of updatePosition over a report with status     *)
(* CLOSED about a tracked instrument, which the pass handles without an    *)
(* error, leaves no lane of that instrument in the live map, whether the   *)
(* map held one before or not.                                             *)
C35_ClosedLeavesNoLane ==
  [][UpdatePass =>
       \A p \in Payloads :
         (/\ TrackedUpdate(p)
          /\ p.status = CLOSED_STATUS
          /\ caseLog' # "Error updating position")
           => ~Has(LiveMapAfter, StripDashes(p.market))]_vars

(***************************************************************************)
(* The stored row and the row emitted last.                                *)
(***************************************************************************)
(* The stored row that has every value of the lane: the columns of the row *)
(* the worker makes of it, and its sum_close.                              *)
StoredLane(tp) ==
  [Inserted(Row(tp)) EXCEPT
     !.sum_close = convertToDecimal(tp.sum_close, AMOUNT_DECIMALS)]

(* The trade_ids of the rows of a batch. *)
BatchIds(batch) == {batch[i].trade_id : i \in 1..Len(batch)}

(* C37: a flush that has written its batch leaves in the table, under each *)
(* trade_id of the batch, the row of the batch that comes last with it,    *)
(* and every other stored row as it was; and when no row is on its way any *)
(* more, the stored row of each lane of the live maps has the values the   *)
(* lane has had since its last transition.                                 *)
C37_LatestRowStored ==
  [][(FlushEnds /\ db' # db) =>
       /\ \A i \in 1..Len(to_process) :
            LastOfItsId(to_process, i) =>
              /\ to_process[i].trade_id \in DOMAIN db'
              /\ Updated(db'[to_process[i].trade_id], to_process[i])
                   = db'[to_process[i].trade_id]
       /\ \A id \in DOMAIN db \ BatchIds(to_process) :
            id \in DOMAIN db' /\ db'[id] = db[id]
       /\ (Drained /\ TO_PROCESS = <<>>) =>
            \A id \in LiveLanes :
              FieldsConvert(heap[id]) =>
                /\ heap[id].trade_id \in DOMAIN db'
                /\ db'[heap[id].trade_id] = StoredLane(heap[id])]_vars

(***************************************************************************)
(* SpecNotify: the notifications of a flush.  processPositions passes a    *)
(* message to sendMessage for each row tagged `open` or `close` and does   *)
(* not wait for it; sendMessage connects the RabbitMQ client if no channel *)
(* is set.  The model follows the messages of a flush while the flush is   *)
(* in progress.  The rows come from the frames of SpecPipeline; the write  *)
(* succeeds or is rejected with a deadlock.                                *)
(***************************************************************************)
(* amqp.connect and createChannel resolve for the sendMessage calls of the *)
(* flush in progress: connect() sets this.channel, publishMessage sends.   *)
sendMessageConnects ==
  /\ cur = Idle
  /\ is_processing
  /\ messages # <<>>
  /\ ~channel
  /\ channel' = TRUE
  /\ UNCHANGED <<cachedPairs, heap, cur, frames, caseLog, processorQueue,
                 messages, running>>
  /\ UNCHANGED connVars
  /\ UNCHANGED flushVars
  /\ UNCHANGED <<rosterVars, height>>

(* amqp.connect rejects for a sendMessage call of the flush in progress:   *)
(* connect() logs and rethrows, the promise of sendMessage is rejected and *)
(* no one handles it.  Node 15 and later end the process on an unhandled   *)
(* rejection; Node 14 prints a warning.                                    *)
sendMessageRejects ==
  /\ cur = Idle
  /\ is_processing
  /\ messages # <<>>
  /\ ~channel
  /\ running' \in BOOLEAN
  /\ UNCHANGED <<cachedPairs, heap, cur, frames, caseLog, processorQueue,
                 messages, channel>>
  /\ UNCHANGED connVars
  /\ UNCHANGED flushVars
  /\ UNCHANGED <<rosterVars, height>>

NextNotify ==
  \/ running /\ OnOpen(1)
  \/ \E frame \in PipeFrames :
       running /\ NoFrameWaits /\ OnMessage(1, frame)
  \/ running /\ OnSubscribed(1)
  \/ \E p \in PipePayloads : running /\ SubscriptionStep(p.market, p)
  \/ running /\ OnChannelData(1, <<Fill(2)>>)
  \/ \E p \in PipePayloads : running /\ cur.n = 0 /\ PositionStep(p)
  \/ running /\ FrameDone
  \/ running /\ processorWorker
  \/ running /\ insertTrades
  \/ running /\ QuerySucceeds
  \/ running /\ QueryDeadlock
  \/ running /\ sendMessageConnects
  \/ running /\ sendMessageRejects

SpecNotify == Init /\ [][NextNotify]_vars

(* The rows of a batch with the trade_id that carry one of the tags, and   *)
(* the messages of a list with the trade_id.                               *)
TaggedRows(batch, id, tags) ==
  Cardinality({i \in 1..Len(batch) :
                 batch[i].trade_id = id /\ batch[i].type \in tags})

MessagesFor(list, id) ==
  Cardinality({i \in 1..Len(list) : list[i].trade_id = id})

(* C32: while a flush is in progress, the messages passed to sendMessage   *)
(* are, for each trade_id, as many as the batch has rows of that trade_id  *)
(* tagged `open` or `close`, and no more in all; the step that starts the  *)
(* flush passes them, and no step of the flush passes one afterwards,      *)
(* whatever the number of its attempts.                                    *)
C32_OneNotificationPerRow ==
  /\ [](is_processing =>
          /\ \A id \in BatchIds(to_process) :
               MessagesFor(messages, id)
                 = TaggedRows(to_process, id, {"open", "close"})
          /\ Len(messages)
               = Cardinality({i \in 1..Len(to_process) :
                                to_process[i].type \in {"open", "close"}}))
  /\ [][messages' # messages =>
          \/ ~is_processing /\ is_processing'
          \/ FlushEnds]_vars

(* The third attempt of a flush is under way; its batch has a row tagged   *)
(* `update` and a row tagged `close`, and one message has been passed.     *)
C32_Witness ==
  /\ is_processing
  /\ attempt = 3
  /\ \E i \in 1..Len(to_process) : to_process[i].type = "update"
  /\ \E i \in 1..Len(to_process) : to_process[i].type = "close"
  /\ Len(messages) = 1

(* C33: the step in which the publish of a notification fails leaves the   *)
(* process running and the flush in progress with its batch, so that the   *)
(* write goes on.                                                          *)
C33_PublishFailureHarmless ==
  [][sendMessageRejects =>
       /\ running'
       /\ is_processing'
       /\ to_process' = to_process]_vars

=============================================================================
